---- MODULE Spec2Model ----
(***************************************************************************)
(* A model of the master of yyin-dev/codecrafters-redis: the store         *)
(* (strings with expiry, streams with subscribers), the framed connection  *)
(* with its single mutex, and the master's command handlers (SET, GET,     *)
(* XADD, XREAD, WAIT, PSYNC) running one thread per connection under the   *)
(* MasterInner mutex.                                                      *)
(***************************************************************************)
EXTENDS Integers, Sequences, FiniteSets, TLC

(***************************************************************************)
(* Bounds of the model.                                                    *)
(***************************************************************************)
NumClients == 2
NumReplicas == 2
MaxCmds == 3
MaxTime == 2
MaxMs == 1
MaxSeq == 1
MaxPx == 1
MaxClosed == 1
MaxWaitTime == 3
MaxHandshake == 3
MaxLate == 1
MaxFrames == 2
MaxFrameCmds == 2

Clients == 1..NumClients
Replicas == 1..NumReplicas
NoThread == 0
\* the keys and values of the string commands; NoExpiry is Option::None
Keys == {"k"}
Values == {"v", "ww"}
NoExpiry == -1
\* the PX argument of SET: absent, or a number of ms
NoPx == -1
PxArgs == {NoPx} \cup (0..MaxPx)
\* the thread of the k-th collector spawned by handle_wait
CollectorThread(k) == NumClients + k

VARIABLES
    now,            \* SystemTime::now(), in ms
    masterLock,     \* holder of Master.inner (Mutex<MasterInner>), or NoThread
    innerPoisoned,  \* a thread panicked while holding Master.inner
    pc,             \* position of each connection thread in handle_connection
    ncmd,           \* commands read so far, over all connections
    cur,            \* the command a connection thread is handling and its locals
    lastReply,      \* the last value written to each client connection
    streams,        \* Store.streams
    chans,          \* the crossbeam channels created by subscribe_entries_after
    map,            \* Store.map
    replication_offset, \* MasterInner.replication_offset
    replicas,       \* MasterInner.replicas: the connections promoted to replica handles
    rstate,         \* the handshake of each replica connection
    connLock,       \* holder of each replica Connection's Mutex<Buffer>, or NoThread
    connOpen,       \* whether the peer of each replica connection is still there
    sent,           \* what the master has written to each replica connection
    answered,       \* how far each replica peer has got in answering its GETACKs
    acks,           \* the REPLCONF ACK offsets a peer has written and the master has not read
    collectors,     \* the collector threads spawned by handle_wait
    log,            \* history: what the handlers have done, for the claims
    rdb,            \* Master.rdb.store: the strings read from the RDB file at start
    hs,             \* what each replica connection was sent and answered before its promotion
    repl,           \* the replica process of replica.rs at the other end of a replica connection
    conn,           \* a client Connection: the bytes on the wire, its Buffer, the commands read
    codec           \* a call of a decoder (Data::decode, decode_length): its input and its result

streamVars == <<streams, chans>>
replVars == <<replication_offset, replicas, rstate, connLock, connOpen, sent, answered, acks, collectors, log>>
extVars == <<rdb, hs, repl, conn, codec>>
masterVars == <<now, masterLock, innerPoisoned, pc, ncmd, cur, lastReply, streams, chans, map,
                replication_offset, replicas, rstate, connLock, connOpen, sent, answered, acks,
                collectors, log>>
vars == <<now, masterLock, innerPoisoned, pc, ncmd, cur, lastReply, streams, chans, map,
          replication_offset, replicas, rstate, connLock, connOpen, sent, answered, acks,
          collectors, log, rdb, hs, repl, conn, codec>>

(***************************************************************************)
(* data.rs: the RESP values and their encoded size.                        *)
(***************************************************************************)
SimpleString(s) == [k |-> "SimpleString", v |-> s]
BulkString(s) == [k |-> "BulkString", v |-> s]
NullBulkString == [k |-> "NullBulkString", v |-> ""]
Integer(i) == [k |-> "Integer", v |-> i]
Array(vs) == [k |-> "Array", v |-> vs]
SimpleError(e) == [k |-> "SimpleError", v |-> e]

\* usize::to_string().len()
RECURSIVE DecLen(_)
DecLen(n) == IF n < 10 THEN 1 ELSE 1 + DecLen(n \div 10)

\* i64::to_string().len()
IntLen(i) == IF i < 0 THEN 1 + DecLen(-i) ELSE DecLen(i)

RECURSIVE SumBytes(_, _)
RECURSIVE num_bytes(_)
num_bytes(d) ==
    CASE d.k = "SimpleString" -> 1 + Len(d.v) + 2
      [] d.k = "BulkString" -> 1 + DecLen(Len(d.v)) + 2 + Len(d.v) + 2
      [] d.k = "NullBulkString" -> 5
      [] d.k = "Array" -> 1 + DecLen(Len(d.v)) + 2 + SumBytes(d.v, 1)
      [] d.k = "SimpleError" -> 1 + Len(d.v) + 2
      [] d.k = "Integer" -> 1 + IntLen(d.v) + 2
SumBytes(vs, i) == IF i > Len(vs) THEN 0 ELSE num_bytes(vs[i]) + SumBytes(vs, i + 1)

(***************************************************************************)
(* data.rs: the codec.  A byte is a one-character string, a buffer a       *)
(* sequence of bytes; buf[i] of the source is At(buf, i).                   *)
(***************************************************************************)
CR == "\r"
LF == "\n"
Digits == <<"0", "1", "2", "3", "4", "5", "6", "7", "8", "9">>

\* char::is_numeric / u8::is_ascii_digit on the bytes of the model
is_numeric(b) == \E i \in 1..10 : Digits[i] = b
DigitValue(b) == (CHOOSE i \in 1..10 : Digits[i] = b) - 1

\* usize::to_string().as_bytes()
RECURSIVE to_string(_)
to_string(n) ==
    IF n < 10 THEN <<Digits[n + 1]>> ELSE to_string(n \div 10) \o <<Digits[(n % 10) + 1]>>

\* i64::to_string().as_bytes()
int_to_string(i) == IF i < 0 THEN <<"-">> \o to_string(-i) ELSE to_string(i)

NULL_BULK_STRING == <<"$", "-", "1", CR, LF>>

append_crlf(s) == s \o <<CR, LF>>

encode_simple_string(s) == append_crlf(<<"+">> \o s)

\* encode_bulk_string with the CRLF after the data left out
encode_bulk_string_unterminated(s) == append_crlf(<<"$">> \o to_string(Len(s))) \o s

encode_bulk_string(s) == append_crlf(append_crlf(<<"$">> \o to_string(Len(s))) \o s)

encode_null_bulk_string == NULL_BULK_STRING

encode_integer(i) == append_crlf(<<":">> \o int_to_string(i))

encode_simple_error(err) == append_crlf(<<"-">> \o err)

encode_rdb_file(file) ==
    SubSeq(encode_bulk_string(file), 1, Len(encode_bulk_string(file)) - 2)

RECURSIVE encode(_)
RECURSIVE encode_elements(_, _)
encode_array(vs) == append_crlf(<<"*">> \o to_string(Len(vs))) \o encode_elements(vs, 1)

\* Data::encode
encode(d) ==
    CASE d.k = "SimpleString" -> encode_simple_string(d.v)
      [] d.k = "BulkString" -> encode_bulk_string(d.v)
      [] d.k = "NullBulkString" -> encode_null_bulk_string
      [] d.k = "Integer" -> encode_integer(d.v)
      [] d.k = "Array" -> encode_array(d.v)
      [] d.k = "SimpleError" -> encode_simple_error(d.v)

\* the loop of encode_array
encode_elements(vs, i) ==
    IF i > Len(vs) THEN <<>> ELSE encode(vs[i]) \o encode_elements(vs, i + 1)

\* the outcomes of a decode function: Ok((value, bytes consumed)), Err(error),
\* or a panic (assert_eq!, unwrap, index out of bounds)
Ok(d, n) == [kind |-> "ok", data |-> d, n |-> n]
Err(e) == [kind |-> "err", err |-> e]
Panicked == [kind |-> "panic"]
NeedMoreBytes == Err("NeedMoreBytes")
CannotDecodeNumber == Err("CannotDecodeNumber")

At(buf, i) == buf[i + 1]
\* &buf[i..] and &buf[i..j]
From(buf, i) == SubSeq(buf, i + 1, Len(buf))
Slice(buf, i, j) == SubSeq(buf, i + 1, j)

\* the number of leading numeric bytes of buf
RECURSIVE NumLen(_)
NumLen(buf) == IF buf = <<>> \/ ~is_numeric(buf[1]) THEN 0 ELSE 1 + NumLen(Tail(buf))

\* str::parse::<usize> on a string of digits
RECURSIVE parse(_)
parse(ds) ==
    IF ds = <<>> THEN 0 ELSE 10 * parse(SubSeq(ds, 1, Len(ds) - 1)) + DigitValue(ds[Len(ds)])

decode_unsigned_int(buf) ==
    IF NumLen(buf) = 0 THEN CannotDecodeNumber
    ELSE Ok(parse(SubSeq(buf, 1, NumLen(buf))), NumLen(buf))

\* decode_signed_int; its callers pass at least three bytes.  The bytes parsed
\* as i64 are digits, after a '-' or not: after a '+' decode_unsigned_int fails.
decode_signed_int(buf) ==
    IF is_numeric(At(buf, 0)) \/ At(buf, 0) = "-" \/ At(buf, 0) = "+"
    THEN LET curr == IF At(buf, 0) = "-" \/ At(buf, 1) = "+" THEN 1 ELSE 0
             u == decode_unsigned_int(From(buf, curr))
         IN  IF u.kind # "ok" THEN u
             ELSE Ok(IF At(buf, 0) = "-" THEN 0 - parse(Slice(buf, 1, curr + u.n))
                     ELSE parse(Slice(buf, 0, curr + u.n)),
                     curr + u.n)
    ELSE CannotDecodeNumber

\* the two assert_eq! on "\r\n" at curr
CrlfAt(buf, curr) == At(buf, curr) = CR /\ At(buf, curr + 1) = LF

decode_bulk_string(buf) ==
    IF Len(buf) < 4 THEN NeedMoreBytes
    ELSE IF At(buf, 0) # "$" THEN Panicked
    ELSE IF At(buf, 1) = "-"
    THEN IF Len(buf) < 5 THEN NeedMoreBytes
         ELSE IF Slice(buf, 0, 5) # NULL_BULK_STRING THEN Panicked
         ELSE Ok(NullBulkString, 5)
    ELSE LET u == decode_unsigned_int(From(buf, 1))
             curr == 1 + u.n
         IN  IF u.kind # "ok" THEN u
             ELSE IF Len(buf) < curr + 2 THEN NeedMoreBytes
             ELSE IF ~CrlfAt(buf, curr) THEN Panicked
             ELSE IF Len(buf) < curr + 2 + u.data THEN NeedMoreBytes
             ELSE IF Len(buf) < curr + 2 + u.data + 2 THEN NeedMoreBytes
             ELSE IF ~CrlfAt(buf, curr + 2 + u.data) THEN Panicked
             ELSE Ok(BulkString(Slice(buf, curr + 2, curr + 2 + u.data)), curr + 2 + u.data + 2)

\* the position of the first "\r" from curr on, Len(buf) when there is none
RECURSIVE FindCr(_, _)
FindCr(buf, curr) ==
    IF curr < Len(buf) /\ At(buf, curr) # CR THEN FindCr(buf, curr + 1) ELSE curr

decode_simple_string(buf) ==
    IF Len(buf) < 3 THEN NeedMoreBytes
    ELSE IF At(buf, 0) # "+" THEN Panicked
    ELSE LET curr == FindCr(buf, 1)
         IN  IF Len(buf) < curr + 2 THEN NeedMoreBytes
             ELSE IF ~CrlfAt(buf, curr) THEN Panicked
             ELSE Ok(SimpleString(Slice(buf, 1, curr)), curr + 2)

decode_integer(buf) ==
    IF Len(buf) < 4 THEN NeedMoreBytes
    ELSE IF At(buf, 0) # ":" THEN Panicked
    ELSE LET i == decode_signed_int(From(buf, 1))
             curr == 1 + i.n
         IN  IF i.kind # "ok" THEN i
             ELSE IF Len(buf) < curr + 2 THEN NeedMoreBytes
             ELSE IF ~CrlfAt(buf, curr) THEN Panicked
             ELSE Ok(Integer(i.data), curr + 2)

\* decode_simple_error: buf[cr_pos] and buf[cr_pos + 1] are read with no check
\* of the length, an index out of bounds panics
decode_simple_error(buf) ==
    IF Len(buf) < 3 THEN NeedMoreBytes
    ELSE IF At(buf, 0) # "-" THEN Panicked
    ELSE LET cr_pos == FindCr(buf, 1)
         IN  IF cr_pos >= Len(buf) THEN Panicked
             ELSE IF At(buf, cr_pos) # CR THEN Panicked
             ELSE IF cr_pos + 1 >= Len(buf) THEN Panicked
             ELSE IF At(buf, cr_pos + 1) # LF THEN Panicked
             ELSE Ok(SimpleError(Slice(buf, 1, cr_pos)), cr_pos + 2)

RECURSIVE decode(_)
RECURSIVE decode_elements(_, _, _, _)
\* decode_array: the count is unwrapped
decode_array(buf) ==
    IF Len(buf) < 4 THEN NeedMoreBytes
    ELSE IF At(buf, 0) # "*" THEN Panicked
    ELSE LET u == decode_unsigned_int(From(buf, 1))
             curr == 1 + u.n
         IN  IF u.kind # "ok" THEN Panicked
             ELSE IF Len(buf) < curr + 2 THEN NeedMoreBytes
             ELSE IF ~CrlfAt(buf, curr) THEN Panicked
             ELSE decode_elements(buf, curr + 2, u.data, <<>>)

\* the loop of decode_array: todo more elements from curr on, values so far
decode_elements(buf, curr, todo, values) ==
    IF todo = 0 THEN Ok(Array(values), curr)
    ELSE LET e == decode(From(buf, curr))
         IN  IF e.kind # "ok" THEN e
             ELSE decode_elements(buf, curr + e.n, todo - 1, Append(values, e.data))

\* Data::decode
decode(buf) ==
    IF Len(buf) = 0 THEN NeedMoreBytes
    ELSE CASE At(buf, 0) = "+" -> decode_simple_string(buf)
           [] At(buf, 0) = "$" -> decode_bulk_string(buf)
           [] At(buf, 0) = ":" -> decode_integer(buf)
           [] At(buf, 0) = "*" -> decode_array(buf)
           [] At(buf, 0) = "-" -> decode_simple_error(buf)
           [] OTHER -> Err("Unrecognized data type")

(***************************************************************************)
(* stream.rs: entry ids.                                                   *)
(***************************************************************************)
NOT_INCREASING_ERR_MSG ==
    "ERR The ID specified in XADD is equal or smaller than the target stream top item"
MIN_ID_ERR_MSG == "ERR The ID specified in XADD must be greater than 0-0"

EntryId(ms, seq) == [ms |-> ms, seq |-> seq]
\* the derived Ord of EntryId: ms first, then seq
IdLt(a, b) == a.ms < b.ms \/ (a.ms = b.ms /\ a.seq < b.seq)
IdLe(a, b) == a = b \/ IdLt(a, b)
\* Display for EntryId
IdToString(id) == ToString(id.ms) \o "-" \o ToString(id.seq)

\* The id argument of XADD: "*", "<ms>-*" or "<ms>-<seq>".
IdSpecs ==
    {[form |-> "*", ms |-> 0, seq |-> 0]}
    \cup {[form |-> "ms-*", ms |-> m, seq |-> 0] : m \in 0..MaxMs}
    \cup {[form |-> "ms-seq", ms |-> m, seq |-> q] : m \in 0..MaxMs, q \in 0..MaxSeq}

\* EntryId::create
create(s, curr_max) ==
    IF s.form = "*"
    THEN EntryId(now, IF now = curr_max.ms THEN 1 ELSE 0)
    ELSE IF s.form = "ms-seq"
    THEN EntryId(s.ms, s.seq)
    ELSE EntryId(s.ms, IF s.ms = curr_max.ms THEN curr_max.seq + 1
                       ELSE IF s.ms = 0 THEN 1 ELSE 0)

(***************************************************************************)
(* stream.rs: Stream.  entries is the BTreeMap, kept in insertion order    *)
(* (range() sorts by id); each entry remembers the instant it was added.   *)
(* subscribers is the BTreeMap<EntryId, Sender<()>>: a function from ids   *)
(* to channels.  A channel is [msgs, tx, rx]: queued wakes, and whether    *)
(* the Sender and the Receiver are still alive.                            *)
(***************************************************************************)
\* the stream keys of the store, and those the slices with one stream use
StreamKeys == {"s", "t"}
OneStream == {"s"}
FieldSets == {<<<<"f", "v">>>>}

Stream_new == [exists |-> TRUE, entries |-> <<>>, subscribers |-> <<>>]
NoStream == [exists |-> FALSE, entries |-> <<>>, subscribers |-> <<>>]

Ids(st) == {st.entries[i].id : i \in 1..Len(st.entries)}

\* Stream::max_entry_id
max_entry_id(st) ==
    IF st.entries = <<>> THEN EntryId(0, 0)
    ELSE CHOOSE m \in Ids(st) : \A x \in Ids(st) : IdLe(x, m)

\* BTreeMap::insert on entries: a present key has its value replaced
InsertEntry(entries, e) ==
    IF \E i \in 1..Len(entries) : entries[i].id = e.id
    THEN [i \in 1..Len(entries) |-> IF entries[i].id = e.id THEN e ELSE entries[i]]
    ELSE Append(entries, e)

Remove(f, ks) == [k \in (DOMAIN f) \ ks |-> f[k]]

\* the subscribers append notifies: range((Unbounded, Excluded(entry_id)))
ToNotify(st, id) == {k \in DOMAIN st.subscribers : IdLt(k, id)}
\* tx.send(()).unwrap() fails on these: the Receiver was dropped
DeadSubs(st, id) == {k \in ToNotify(st, id) : ~chans[st.subscribers[k]].rx}
\* ... and the map() reaches these before the first failed send
SentBeforePanic(st, id) ==
    {k \in ToNotify(st, id) : \A d \in DeadSubs(st, id) : IdLt(k, d)}

\* Stream::append without the two validations
append_unchecked(st, id, fields) ==
    LET st1 == [st EXCEPT !.entries = InsertEntry(@, [id |-> id, fields |-> fields, at |-> now])]
        woken == IF DeadSubs(st, id) = {} THEN ToNotify(st, id) ELSE SentBeforePanic(st, id)
        wokenCh == {st.subscribers[k] : k \in woken}
        gone == IF DeadSubs(st, id) # {} THEN {}
                ELSE ToNotify(st, id) \cup ({id} \cap DOMAIN st.subscribers)
        goneCh == {st.subscribers[k] : k \in gone}
    IN  [res |-> IF DeadSubs(st, id) = {} THEN "ok" ELSE "panic",
         st |-> [st1 EXCEPT !.subscribers = Remove(@, gone)],
         chans |-> [c \in DOMAIN chans |->
                      [msgs |-> chans[c].msgs + (IF c \in wokenCh THEN 1 ELSE 0),
                       tx |-> chans[c].tx /\ c \notin goneCh,
                       rx |-> chans[c].rx]]]

\* Stream::append with the check against 0-0 left out
append_no_min_check(st, id, fields) ==
    IF IdLe(id, max_entry_id(st))
    THEN [res |-> NOT_INCREASING_ERR_MSG, st |-> st, chans |-> chans]
    ELSE append_unchecked(st, id, fields)

\* Stream::append
append(st, id, fields) ==
    IF IdLe(id, EntryId(0, 0))
    THEN [res |-> MIN_ID_ERR_MSG, st |-> st, chans |-> chans]
    ELSE IF IdLe(id, max_entry_id(st))
    THEN [res |-> NOT_INCREASING_ERR_MSG, st |-> st, chans |-> chans]
    ELSE append_unchecked(st, id, fields)

\* streams.entry(stream).or_insert(Stream::new())
or_insert(s) == IF streams[s].exists THEN streams[s] ELSE Stream_new

\* Store::stream_set: the resolved id and the outcome of the append
stream_set_id(s, spec) == create(spec, max_entry_id(or_insert(s)))
stream_set(s, spec, fields) == append(or_insert(s), stream_set_id(s, spec), fields)

(***************************************************************************)
(* master.rs: locking of Master.inner.                                     *)
(***************************************************************************)
\* self.inner.lock() taken without waiting for the holder
InnerFree_unlocked == ~innerPoisoned

\* self.inner.lock().unwrap() returns: nobody holds the mutex and it is not poisoned
InnerFree == masterLock = NoThread /\ ~innerPoisoned

Die(c) == pc' = [pc EXCEPT ![c] = "dead"]

NoCmd == [op |-> "none"]

\* Master::new, before any connection is accepted.  rdb_store is what Rdb::read
\* returned: the strings of the file, those with an expiry kept only when it is
\* still to come (rdb.rs line 181).  Its strings are copied into the store of
\* MasterInner with no expiry (lines 76-78) and the Rdb is kept in the Master.
Master_new(rdb_store) ==
    /\ now = 0
    /\ masterLock = NoThread
    /\ innerPoisoned = FALSE
    /\ pc = [c \in Clients |-> "idle"]
    /\ ncmd = 0
    /\ cur = [c \in Clients |-> NoCmd]
    /\ lastReply = [c \in Clients |-> NullBulkString]
    /\ streams = [s \in StreamKeys |-> NoStream]
    /\ chans = <<>>
    /\ map = [k \in DOMAIN rdb_store |-> [value |-> rdb_store[k].value, expiration |-> NoExpiry]]
    /\ rdb = rdb_store
    /\ replication_offset = 0
    /\ replicas = <<>>
    /\ rstate = [r \in Replicas |-> "new"]
    /\ connLock = [r \in Replicas |-> NoThread]
    /\ connOpen = [r \in Replicas |-> TRUE]
    /\ sent = [r \in Replicas |-> <<>>]
    /\ answered = [r \in Replicas |-> 0]
    /\ acks = [r \in Replicas |-> <<>>]
    /\ collectors = <<>>
    /\ log = [bytes |-> 0, maxAck |-> [r \in Replicas |-> -1], ackAt |-> [r \in Replicas |-> 0],
              set |-> [k \in Keys \cup StreamKeys |->
                          [any |-> FALSE, value |-> "", at |-> 0, px |-> NoPx]]]

\* Rdb::read(None): an empty store
Store_new == <<>>
\* no replica connection has sent anything yet
NoHandshake == hs = [r \in Replicas |-> [sent |-> <<>>, read |-> 0, out |-> <<>>]]
\* no replica process, client byte stream or decode call in this slice
NoReplica == repl = <<>>
NoConn == conn = <<>>
NoCodec == codec = <<>>

Init == Master_new(Store_new) /\ NoHandshake /\ NoReplica /\ NoConn /\ NoCodec

\* a timed wait (select!, recv_timeout) whose deadline has come
TimerDue ==
    \E c \in Clients :
        /\ pc[c] \in {"xread_select", "wait_recv"}
        /\ cur[c].deadline # -1 /\ cur[c].deadline <= now

\* one ms passes; every thread that can run has run
Advance ==
    /\ ~TimerDue
    /\ now' = now + 1
    /\ UNCHANGED <<masterLock, innerPoisoned, pc, ncmd, cur, lastReply, streams, chans, map, replVars>>
    /\ UNCHANGED extVars

Tick ==
    /\ now < MaxTime
    /\ Advance

\* handle_wait is stuck in write_data on a connection whose buffer is locked
WriteBlocked(c) ==
    /\ pc[c] = "wait_getack"
    /\ cur[c].idx <= Len(replicas)
    /\ connLock[replicas[cur[c].idx]] # NoThread

\* a collector thread that can take a step: read_data can lock the buffer, or
\* the bytes its blocked read waits for (or the end of the stream) are there
CollectorReady(k) ==
    LET r == collectors[k].replicas[collectors[k].idx]
    IN  \/ collectors[k].state = "run" /\ connLock[r] = NoThread
        \/ collectors[k].state = "reading" /\ (acks[r] # <<>> \/ ~connOpen[r])

\* a handler that can take a step of its propagation or broadcast, or whose
\* recv_timeout has a message or a dropped Sender to return with
HandlerReady(c) ==
    \/ /\ pc[c] \in {"set_propagate", "wait_getack"}
       /\ cur[c].idx <= Len(replicas) => connLock[replicas[cur[c].idx]] = NoThread
    \/ /\ pc[c] = "wait_recv"
       /\ collectors[cur[c].k].sentTx \/ collectors[cur[c].k].state = "done"

\* In the replication slice only a WAIT observes the clock; a ms passes while
\* its handler waits, in recv_timeout or for the lock of a connection, and
\* no thread of the master has a step to take.
TickWait ==
    /\ now < MaxWaitTime
    /\ \E c \in Clients : pc[c] = "wait_recv" \/ WriteBlocked(c)
    /\ \A c \in Clients : ~HandlerReady(c)
    /\ \A k \in 1..Len(collectors) : ~CollectorReady(k)
    /\ Advance

\* lock().unwrap() on the poisoned Master.inner panics the connection thread
PoisonedLock(c) ==
    /\ pc[c] \in {"idle", "xread_query", "xread_subscribe", "xread_requery"}
    /\ pc[c] = "idle" => ncmd < MaxCmds
    /\ innerPoisoned
    /\ Die(c)
    /\ UNCHANGED <<now, masterLock, innerPoisoned, ncmd, cur, lastReply, streams, chans, map, replVars>>
    /\ UNCHANGED extVars

(***************************************************************************)
(* master.rs: XADD.                                                        *)
(***************************************************************************)
Xadd(c, s, spec, fields) ==
    /\ pc[c] = "idle" /\ ncmd < MaxCmds
    /\ InnerFree
    /\ LET r == stream_set(s, spec, fields)
           id == stream_set_id(s, spec)
       IN  /\ streams' = [streams EXCEPT ![s] = r.st]
           /\ chans' = r.chans
           /\ cur' = [cur EXCEPT ![c] = [op |-> "xadd"]]
           /\ IF r.res = "panic"
              THEN /\ innerPoisoned' = TRUE
                   /\ Die(c)
                   /\ UNCHANGED lastReply
              ELSE /\ UNCHANGED innerPoisoned
                   /\ UNCHANGED pc
                   /\ lastReply' = [lastReply EXCEPT ![c] =
                         IF r.res = "ok" THEN BulkString(IdToString(id)) ELSE SimpleError(r.res)]
    /\ ncmd' = ncmd + 1
    /\ UNCHANGED <<now, masterLock, map, replVars>>
    /\ UNCHANGED extVars

(***************************************************************************)
(* stream.rs / store.rs: ranges.                                           *)
(***************************************************************************)
U64_MAX == 2147483647

\* EntryId::max
EntryId_max == EntryId(U64_MAX, U64_MAX)

Included(id) == [kind |-> "Included", id |-> id]
Excluded(id) == [kind |-> "Excluded", id |-> id]

AboveStart(b, id) == IF b.kind = "Included" THEN IdLe(b.id, id) ELSE IdLt(b.id, id)
BelowEnd(b, id) == IF b.kind = "Included" THEN IdLe(id, b.id) ELSE IdLt(id, b.id)

\* the iteration order of the BTreeMap: by id
RECURSIVE ById(_)
ById(es) ==
    IF es = {} THEN <<>>
    ELSE LET m == CHOOSE e \in es : \A x \in es : IdLe(e.id, x.id)
         IN  <<m>> \o ById(es \ {m})

\* Stream::range
range(st, start, end) ==
    ById({st.entries[i] : i \in {j \in 1..Len(st.entries) :
            AboveStart(start, st.entries[j].id) /\ BelowEnd(end, st.entries[j].id)}})

\* BTreeMap::range on a map that has a root (entries were inserted) panics
\* when the start of the range is above its end
range_panics(start, end) ==
    \/ IdLt(end.id, start.id)
    \/ start.id = end.id /\ start.kind = "Excluded" /\ end.kind = "Excluded"

\* a range that takes its start bound as included
get_stream_range_inclusive(s, start, end) ==
    IF streams[s].exists THEN range(streams[s], Included(start.id), end) ELSE <<>>

\* Store::get_stream_range
get_stream_range(s, start, end) ==
    IF streams[s].exists THEN range(streams[s], start, end) ELSE <<>>

\* Store::get_stream_curr_max_id (the stream is created when absent)
get_stream_curr_max_id(s) == max_entry_id(or_insert(s))

\* The id argument of XREAD: "$", or a start id "<ms>-<seq>".
StartSpecs ==
    {[form |-> "$", ms |-> 0, seq |-> 0]}
    \cup {[form |-> "ms-seq", ms |-> m, seq |-> 0] : m \in 0..MaxMs}

\* EntryId::create_start: "-", "<ms>-<seq>" or "<ms>"
create_start(s) ==
    IF s.form = "-" THEN EntryId(0, 0)
    ELSE IF s.form = "ms-seq" THEN EntryId(s.ms, s.seq)
    ELSE EntryId(s.ms, 0)

\* EntryId::create_end: "+", "<ms>-<seq>" or "<ms>"
create_end(s) ==
    IF s.form = "+" THEN EntryId(U64_MAX, U64_MAX)
    ELSE IF s.form = "ms-seq" THEN EntryId(s.ms, s.seq)
    ELSE EntryId(s.ms, U64_MAX)

(***************************************************************************)
(* master.rs: XREAD.                                                       *)
(***************************************************************************)
NoDeadline == -1
\* the BLOCK argument: absent, or a number of ms (0: u64::MAX ms)
NoBlock == -1
BlockArgs == {NoBlock} \cup (0..MaxPx)

\* entries_to_array
entries_to_array(entries) ==
    Array([i \in 1..Len(entries) |->
        Array(<<BulkString(IdToString(entries[i].id)),
                Array([j \in 1..(2 * Len(entries[i].fields)) |->
                    BulkString(entries[i].fields[(j + 1) \div 2][((j + 1) % 2) + 1])])>>)])

\* the closure get_stream_and_entries of the "xread" arm
RECURSIVE get_stream_and_entries(_, _, _, _)
get_stream_and_entries(sas, captured, convert_wildcard, i) ==
    IF i > Len(sas) THEN <<>>
    ELSE LET rest == get_stream_and_entries(sas, captured, convert_wildcard, i + 1)
             s == sas[i].stream
         IN  IF sas[i].start.form = "$" /\ ~convert_wildcard THEN rest
             ELSE LET start == IF sas[i].start.form = "$" THEN captured[s]
                               ELSE create_start(sas[i].start)
                      entries == get_stream_range(s, Excluded(start), Included(EntryId_max))
                  IN  IF entries = <<>> THEN rest
                      ELSE <<[stream |-> s, entries |-> entries]>> \o rest

\* the reply of the "xread" arm
XreadReply(stream_and_entries) ==
    IF stream_and_entries = <<>> THEN NullBulkString
    ELSE Array([i \in 1..Len(stream_and_entries) |->
            Array(<<BulkString(stream_and_entries[i].stream),
                    entries_to_array(stream_and_entries[i].entries)>>)])

\* the entries a blocked XREAD on "$" owes its client: those added to the first
\* stream after the capture of its max id and before the deadline
AddedSince(c) ==
    LET s == cur[c].sas[1].stream
        es == get_stream_range(s, Excluded(cur[c].captured[s]), Included(EntryId_max))
    IN  SelectSeq(es, LAMBDA e : cur[c].deadline = NoDeadline \/ e.at < cur[c].deadline)

\* lines 260-288: the arguments are parsed and the max ids are captured
XreadCapture(c, block, sas) ==
    /\ pc[c] = "idle" /\ ncmd < MaxCmds
    /\ InnerFree
    /\ ncmd' = ncmd + 1
    /\ streams' = [s \in StreamKeys |->
          IF \E i \in 1..Len(sas) : sas[i].stream = s THEN or_insert(s) ELSE streams[s]]
    /\ cur' = [cur EXCEPT ![c] =
          [op |-> "xread", block |-> block, sas |-> sas,
           captured |-> [s \in {sas[i].stream : i \in 1..Len(sas)} |-> get_stream_curr_max_id(s)],
           ch |-> 0, sub |-> EntryId(0, 0), deadline |-> NoDeadline, expected |-> <<>>]]
    /\ pc' = [pc EXCEPT ![c] = "xread_query"]
    /\ UNCHANGED <<now, masterLock, innerPoisoned, lastReply, chans, map, replVars>>
    /\ UNCHANGED extVars

\* lines 323-326 and 356-368: the first query, with "$" not converted
XreadQuery(c) ==
    /\ pc[c] = "xread_query"
    /\ InnerFree
    /\ LET stream_and_entries == get_stream_and_entries(cur[c].sas, cur[c].captured, FALSE, 1)
       IN  IF stream_and_entries = <<>> /\ cur[c].block # NoBlock
           THEN /\ pc' = [pc EXCEPT ![c] = "xread_subscribe"]
                /\ UNCHANGED lastReply
           ELSE /\ pc' = [pc EXCEPT ![c] = "idle"]
                /\ lastReply' = [lastReply EXCEPT ![c] = XreadReply(stream_and_entries)]
    /\ UNCHANGED <<now, masterLock, innerPoisoned, ncmd, cur, streams, chans, map, replVars>>
    /\ UNCHANGED extVars

\* Stream::subscribe_entries_after: a Sender already stored under the id is dropped
subscribe_entries_after(st, id) ==
    [st |-> [st EXCEPT !.subscribers =
                [k \in (DOMAIN st.subscribers) \cup {id} |-> IF k = id THEN Len(chans) + 1 ELSE st.subscribers[k]]],
     chans |-> Append([x \in DOMAIN chans |->
                          IF id \in DOMAIN st.subscribers /\ st.subscribers[id] = x
                          THEN [chans[x] EXCEPT !.tx = FALSE] ELSE chans[x]],
                      [msgs |-> 0, tx |-> TRUE, rx |-> TRUE])]

\* lines 330-341: the id subscribed to is resolved again, then stream_subscribe
XreadSubscribe(c) ==
    /\ pc[c] = "xread_subscribe"
    /\ InnerFree
    /\ LET s == cur[c].sas[1].stream
           entry_id == IF cur[c].sas[1].start.form = "$" THEN get_stream_curr_max_id(s)
                       ELSE create_start(cur[c].sas[1].start)
           r == subscribe_entries_after(or_insert(s), entry_id)
       IN  /\ streams' = [streams EXCEPT ![s] = r.st]
           /\ chans' = r.chans
           /\ cur' = [cur EXCEPT ![c].ch = Len(chans) + 1,
                                 ![c].sub = entry_id,
                                 ![c].deadline = IF cur[c].block = 0 THEN NoDeadline ELSE now + cur[c].block]
    /\ pc' = [pc EXCEPT ![c] = "xread_select"]
    /\ UNCHANGED <<now, masterLock, innerPoisoned, ncmd, lastReply, map, replVars>>
    /\ UNCHANGED extVars

\* select!: recv(update_chan) -> Ok(())
XreadRecv(c) ==
    /\ pc[c] = "xread_select"
    /\ chans[cur[c].ch].msgs > 0
    /\ chans' = [chans EXCEPT ![cur[c].ch].msgs = @ - 1]
    /\ pc' = [pc EXCEPT ![c] = "xread_requery"]
    /\ UNCHANGED <<now, masterLock, innerPoisoned, ncmd, cur, lastReply, streams, map, replVars>>
    /\ UNCHANGED extVars

\* line 349 and 356-368: the second query, "$" converted to the captured id
XreadRequery(c) ==
    /\ pc[c] = "xread_requery"
    /\ InnerFree
    /\ lastReply' = [lastReply EXCEPT ![c] =
          XreadReply(get_stream_and_entries(cur[c].sas, cur[c].captured, TRUE, 1))]
    /\ cur' = [cur EXCEPT ![c].expected = AddedSince(c)]
    /\ chans' = [chans EXCEPT ![cur[c].ch].rx = FALSE]
    /\ pc' = [pc EXCEPT ![c] = "idle"]
    /\ UNCHANGED <<now, masterLock, innerPoisoned, ncmd, streams, map, replVars>>
    /\ UNCHANGED extVars

\* select!: recv(update_chan) -> Err (the Sender was dropped), then the null reply
XreadDisconnected(c) ==
    /\ pc[c] = "xread_select"
    /\ chans[cur[c].ch].msgs = 0 /\ ~chans[cur[c].ch].tx
    /\ lastReply' = [lastReply EXCEPT ![c] = XreadReply(<<>>)]
    /\ cur' = [cur EXCEPT ![c].expected = AddedSince(c)]
    /\ chans' = [chans EXCEPT ![cur[c].ch].rx = FALSE]
    /\ pc' = [pc EXCEPT ![c] = "idle"]
    /\ UNCHANGED <<now, masterLock, innerPoisoned, ncmd, streams, map, replVars>>
    /\ UNCHANGED extVars

\* select!: default(timeout), then the null reply
XreadTimeout(c) ==
    /\ pc[c] = "xread_select"
    /\ chans[cur[c].ch].msgs = 0 /\ chans[cur[c].ch].tx
    /\ cur[c].deadline # NoDeadline /\ cur[c].deadline <= now
    /\ lastReply' = [lastReply EXCEPT ![c] = XreadReply(<<>>)]
    /\ cur' = [cur EXCEPT ![c].expected = AddedSince(c)]
    /\ chans' = [chans EXCEPT ![cur[c].ch].rx = FALSE]
    /\ pc' = [pc EXCEPT ![c] = "idle"]
    /\ UNCHANGED <<now, masterLock, innerPoisoned, ncmd, streams, map, replVars>>
    /\ UNCHANGED extVars

XreadArgs == {<<[stream |-> s, start |-> st]>> : s \in OneStream, st \in StartSpecs}

NextStream ==
    \/ Tick
    \/ \E c \in Clients : PoisonedLock(c)
    \/ \E c \in Clients, s \in OneStream, spec \in IdSpecs, f \in FieldSets : Xadd(c, s, spec, f)
    \/ \E c \in Clients, b \in BlockArgs, sas \in XreadArgs : XreadCapture(c, b, sas)
    \/ \E c \in Clients : XreadQuery(c)
    \/ \E c \in Clients : XreadSubscribe(c)
    \/ \E c \in Clients : XreadRecv(c)
    \/ \E c \in Clients : XreadRequery(c)
    \/ \E c \in Clients : XreadDisconnected(c)
    \/ \E c \in Clients : XreadTimeout(c)

(***************************************************************************)
(* store.rs: the string mapping.  map is a function from the keys present  *)
(* to [value, expiration]; NoExpiry is Option::None.                       *)
(***************************************************************************)
\* ValueWrapper::has_expired with <= written <
has_expired_strict(w) == w.expiration # NoExpiry /\ w.expiration < now

\* ValueWrapper::has_expired
has_expired(w) == w.expiration # NoExpiry /\ w.expiration <= now

\* Store::set refusing a key of the stream mapping
set_unless_stream(key, value, expire_in) ==
    IF key \in StreamKeys /\ streams[key].exists THEN map
    ELSE [k \in (DOMAIN map) \cup {key} |->
            IF k = key
            THEN [value |-> value,
                  expiration |-> IF expire_in = NoPx THEN NoExpiry ELSE now + expire_in]
            ELSE map[k]]

\* Store::set
set(key, value, expire_in) ==
    [k \in (DOMAIN map) \cup {key} |->
        IF k = key
        THEN [value |-> value,
              expiration |-> IF expire_in = NoPx THEN NoExpiry ELSE now + expire_in]
        ELSE map[k]]

\* Store::get: the value returned (NoValue is None) and the mapping left behind
NoValue == [found |-> FALSE, value |-> ""]
get(key) ==
    IF key \notin DOMAIN map THEN [ret |-> NoValue, map |-> map]
    ELSE IF has_expired(map[key]) THEN [ret |-> NoValue, map |-> Remove(map, {key})]
    ELSE [ret |-> [found |-> TRUE, value |-> map[key].value], map |-> map]

\* Store::get_type with the stream mapping consulted before the strings
get_type_streams_first(key) ==
    [ret |-> IF key \in StreamKeys /\ streams[key].exists THEN "stream"
             ELSE IF get(key).ret.found THEN "string" ELSE "none",
     map |-> get(key).map]

\* Store::get_type: Store::get first (an expired string is removed and counts
\* as absent), then streams.contains_key
get_type(key) ==
    [ret |-> IF get(key).ret.found THEN "string"
             ELSE IF key \in StreamKeys /\ streams[key].exists THEN "stream" ELSE "none",
     map |-> get(key).map]

(***************************************************************************)
(* connection.rs: the framed connection of a replica handle.  Every        *)
(* operation of Connection locks the one Mutex<Buffer> for its duration.   *)
(***************************************************************************)
\* Connection::write_data can take the lock
CanWrite(r) == connLock[r] = NoThread

\* Buffer::write_data: write_all on the socket, an error once the peer is gone
write_data(s, r, msg) ==
    IF connOpen[r] THEN [ok |-> TRUE, sent |-> [s EXCEPT ![r] = Append(@, msg)]]
    ELSE [ok |-> FALSE, sent |-> s]

(***************************************************************************)
(* master.rs: GET and SET.                                                 *)
(***************************************************************************)
\* the array of a SET command as the client sent it
SetArray(key, value, px) ==
    Array(<<BulkString("SET"), BulkString(key), BulkString(value)>>
          \o (IF px = NoPx THEN <<>> ELSE <<BulkString("PX"), BulkString(ToString(px))>>))

\* the "get" arm
Get(c, key) ==
    /\ pc[c] = "idle" /\ ncmd < MaxCmds
    /\ InnerFree
    /\ ncmd' = ncmd + 1
    /\ LET g == get(key)
       IN  /\ map' = g.map
           /\ lastReply' = [lastReply EXCEPT ![c] =
                 IF g.ret.found THEN BulkString(g.ret.value) ELSE NullBulkString]
    /\ cur' = [cur EXCEPT ![c] = [op |-> "get", key |-> key, at |-> now,
                                   last |-> log.set[key],
                                   removed |-> key \notin DOMAIN get(key).map]]
    /\ UNCHANGED <<now, masterLock, innerPoisoned, pc, streamVars, replVars>>
    /\ UNCHANGED extVars

\* the "type" arm; live and stream record where the key was when the command
\* was handled
Type(c, key) ==
    /\ pc[c] = "idle" /\ ncmd < MaxCmds
    /\ InnerFree
    /\ ncmd' = ncmd + 1
    /\ map' = get_type(key).map
    /\ lastReply' = [lastReply EXCEPT ![c] = SimpleString(get_type(key).ret)]
    /\ cur' = [cur EXCEPT ![c] =
          [op |-> "type", key |-> key,
           live |-> key \in DOMAIN map /\ map[key].expiration \notin 0..now,
           stream |-> key \in StreamKeys /\ streams[key].exists]]
    /\ UNCHANGED <<now, masterLock, innerPoisoned, pc, streamVars, replVars>>
    /\ UNCHANGED extVars

\* the "set" arm, lines 183-199: lock, Store::set, +OK
SetBegin(c, key, value, px) ==
    /\ pc[c] = "idle" /\ ncmd < MaxCmds
    /\ InnerFree
    /\ masterLock' = c
    /\ ncmd' = ncmd + 1
    /\ map' = set(key, value, px)
    /\ lastReply' = [lastReply EXCEPT ![c] = SimpleString("OK")]
    /\ cur' = [cur EXCEPT ![c] =
          [op |-> "set", vs |-> SetArray(key, value, px), seq |-> ncmd + 1, idx |-> 1,
           targets |-> replicas]]
    /\ pc' = [pc EXCEPT ![c] = "set_propagate"]
    /\ log' = [log EXCEPT !.bytes = @ + num_bytes(SetArray(key, value, px)),
                          !.set[key] = [any |-> TRUE, value |-> value, at |-> now, px |-> px]]
    /\ UNCHANGED <<now, innerPoisoned, streamVars, replication_offset, replicas, rstate,
                   connLock, connOpen, sent, answered, acks, collectors>>
    /\ UNCHANGED extVars

\* replica.conn.write_data(msg) on the handles from i on, in list order, up to
\* the first one whose connection is locked (the writer blocks there) or whose
\* write fails (the iteration ends there)
RECURSIVE write_all(_, _, _)
write_all(msg, i, s) ==
    IF i > Len(replicas) \/ ~CanWrite(replicas[i]) THEN [idx |-> i, ok |-> TRUE, sent |-> s]
    ELSE IF ~write_data(s, replicas[i], msg).ok THEN [idx |-> i, ok |-> FALSE, sent |-> s]
    ELSE write_all(msg, i + 1, write_data(s, replicas[i], msg).sent)

\* lines 202-210: the propagation to the replicas, in list order; an error ends
\* the handler and the connection thread; at the end the offset advances and
\* the lock is released
SetPropagate(c) ==
    /\ pc[c] = "set_propagate"
    /\ cur[c].idx <= Len(replicas) => CanWrite(replicas[cur[c].idx])
    /\ LET w == write_all([data |-> cur[c].vs, seq |-> cur[c].seq], cur[c].idx, sent)
       IN  /\ sent' = w.sent
           /\ cur' = [cur EXCEPT ![c].idx = w.idx]
           /\ IF ~w.ok
              THEN /\ pc' = [pc EXCEPT ![c] = "closed"]
                   /\ masterLock' = NoThread
                   /\ UNCHANGED replication_offset
              ELSE IF w.idx > Len(replicas)
              THEN /\ replication_offset' = replication_offset + num_bytes(cur[c].vs)
                   /\ masterLock' = NoThread
                   /\ pc' = [pc EXCEPT ![c] = "idle"]
              ELSE UNCHANGED <<pc, masterLock, replication_offset>>
    /\ UNCHANGED <<now, innerPoisoned, ncmd, lastReply, streamVars, map,
                   replicas, rstate, connLock, connOpen, answered, acks, collectors, log>>
    /\ UNCHANGED extVars

(***************************************************************************)
(* master.rs: the commands handle_data cannot serve.                       *)
(***************************************************************************)
\* an unknown command name; GET, TYPE, SET or WAIT with a wrong number of
\* arguments; SET k v EX n; SET k v PX x and WAIT n x with x not a number
Unserved == {"unknown", "get_argc", "type_argc", "set_argc", "set_ex", "set_px", "wait_argc", "wait_arg"}

\* what handle_data does with such a command.  The get, type and set arms lock
\* Master.inner before their assert_eq!, which panics with the guard alive and
\* poisons the mutex; panic!("unknown command") and the assert_eq! of the wait
\* arm panic with no lock held; parse()? returns the error, the guard is
\* dropped and handle_connection returns.
unserved(kind) ==
    CASE kind \in {"get_argc", "type_argc", "set_argc", "set_ex"} ->
            [locks |-> TRUE, poisons |-> TRUE, pc |-> "dead"]
      [] kind = "set_px" -> [locks |-> TRUE, poisons |-> FALSE, pc |-> "closed"]
      [] kind \in {"unknown", "wait_argc"} -> [locks |-> FALSE, poisons |-> FALSE, pc |-> "dead"]
      [] kind = "wait_arg" -> [locks |-> FALSE, poisons |-> FALSE, pc |-> "closed"]

\* handle_connection reads such a command and handle_data ends on it
BadCmd(c, kind) ==
    /\ pc[c] = "idle" /\ ncmd < MaxCmds
    /\ unserved(kind).locks => InnerFree
    /\ ncmd' = ncmd + 1
    /\ cur' = [cur EXCEPT ![c] = [op |-> "bad", kind |-> kind]]
    /\ pc' = [pc EXCEPT ![c] = unserved(kind).pc]
    /\ innerPoisoned' = (innerPoisoned \/ unserved(kind).poisons)
    /\ UNCHANGED <<now, masterLock, lastReply, streamVars, map, replVars>>
    /\ UNCHANGED extVars

(***************************************************************************)
(* master.rs: PSYNC and the promotion of the connection.                   *)
(***************************************************************************)
\* MasterInner.replication_id, line 83
replication_id == "8371b4fb1155b71f4a04d3e1bc3e18c4a990aeeb"

\* the bytes empty_rdb_base64 decodes to: 88 of them, their values do not matter
empty_rdb == [i \in 1..88 |-> "x"]

\* Connection::write: bytes written as they are
Raw(bytes) == [k |-> "Raw", v |-> bytes]

\* the peer of connection r sends cmd; handle_connection reads it and
\* handle_data writes replies
serve(r, cmd, replies) ==
    [hs EXCEPT ![r] = [sent |-> Append(@.sent, cmd), read |-> @.read + 1, out |-> @.out \o replies]]

\* the "ping" arm on a connection that will become a replica
HsPing(r) ==
    /\ rstate[r] = "new"
    /\ Len(hs[r].sent) < MaxHandshake
    /\ hs' = serve(r, "ping", <<SimpleString("PONG")>>)
    /\ UNCHANGED <<masterVars, rdb, repl, conn, codec>>

\* the "replconf" arm
HsReplconf(r) ==
    /\ rstate[r] = "new"
    /\ Len(hs[r].sent) < MaxHandshake
    /\ hs' = serve(r, "replconf", <<SimpleString("OK")>>)
    /\ UNCHANGED <<masterVars, rdb, repl, conn, codec>>

\* the "psync" arm: +FULLRESYNC and the RDB frame are written, handle_data returns true
Psync(r) ==
    /\ rstate[r] = "new"
    /\ InnerFree
    /\ rstate' = [rstate EXCEPT ![r] = "synced"]
    /\ hs' = serve(r, "psync", <<SimpleString("FULLRESYNC " \o replication_id \o " 0"),
                                 Raw(encode_rdb_file(empty_rdb))>>)
    /\ UNCHANGED <<now, masterLock, innerPoisoned, pc, ncmd, cur, lastReply, streamVars, map,
                   replication_offset, replicas, connLock, connOpen, sent, answered, acks,
                   collectors, log>>
    /\ UNCHANGED <<rdb, repl, conn, codec>>

\* handle_connection with the push of line 120 moved before the handshake
Promote_early(r) ==
    /\ rstate[r] = "new"
    /\ InnerFree
    /\ rstate' = [rstate EXCEPT ![r] = "registered"]
    /\ replicas' = Append(replicas, r)
    /\ UNCHANGED <<now, masterLock, innerPoisoned, pc, ncmd, cur, lastReply, streamVars, map,
                   replication_offset, connLock, connOpen, sent, answered, acks, collectors, log>>
    /\ UNCHANGED extVars

\* handle_connection, lines 112-122: the handle is pushed onto inner.replicas
Promote(r) ==
    /\ rstate[r] = "synced"
    /\ InnerFree
    /\ rstate' = [rstate EXCEPT ![r] = "registered"]
    /\ replicas' = Append(replicas, r)
    /\ UNCHANGED <<now, masterLock, innerPoisoned, pc, ncmd, cur, lastReply, streamVars, map,
                   replication_offset, connLock, connOpen, sent, answered, acks, collectors, log>>
    /\ UNCHANGED extVars

\* the peer writes a command after its PSYNC; handle_connection has left its
\* loop and does not read it
PeerSendLate(r) ==
    /\ rstate[r] # "new"
    /\ Len(hs[r].sent) - hs[r].read < MaxLate
    /\ hs' = [hs EXCEPT ![r].sent = Append(@, "ping")]
    /\ UNCHANGED <<masterVars, rdb, repl, conn, codec>>

(***************************************************************************)
(* The peer of a replica connection.  It counts the bytes of the commands  *)
(* it receives and answers a REPLCONF GETACK with REPLCONF ACK <offset>,   *)
(* the count before that GETACK; it may also stay silent, or go away.      *)
(***************************************************************************)
getack == Array(<<BulkString("REPLCONF"), BulkString("GETACK"), BulkString("*")>>)

RECURSIVE BytesBefore(_, _)
BytesBefore(msgs, i) ==
    IF i <= 1 THEN 0 ELSE num_bytes(msgs[i - 1].data) + BytesBefore(msgs, i - 1)

\* the next GETACK the peer has not dealt with, 0 when there is none
NextGetack(r) ==
    LET idxs == {i \in (answered[r] + 1)..Len(sent[r]) : sent[r][i].data = getack}
    IN  IF idxs = {} THEN 0 ELSE CHOOSE i \in idxs : \A j \in idxs : i <= j

\* the peer answers the oldest GETACK it has not answered
PeerAck(r) ==
    /\ connOpen[r]
    /\ NextGetack(r) # 0
    /\ answered' = [answered EXCEPT ![r] = NextGetack(r)]
    /\ acks' = [acks EXCEPT ![r] = Append(@, BytesBefore(sent[r], NextGetack(r)))]
    /\ log' = [log EXCEPT !.maxAck[r] = BytesBefore(sent[r], NextGetack(r)), !.ackAt[r] = now]
    /\ UNCHANGED <<now, masterLock, innerPoisoned, pc, ncmd, cur, lastReply, streamVars, map,
                   replication_offset, replicas, rstate, connLock, connOpen, sent, collectors>>
    /\ UNCHANGED extVars

PeerClose(r) ==
    /\ rstate[r] = "registered"
    /\ Cardinality({q \in Replicas : ~connOpen[q]}) < MaxClosed
    /\ connOpen[r]
    /\ connOpen' = [connOpen EXCEPT ![r] = FALSE]
    /\ UNCHANGED <<now, masterLock, innerPoisoned, pc, ncmd, cur, lastReply, streamVars, map,
                   replication_offset, replicas, rstate, connLock, sent, answered, acks,
                   collectors, log>>
    /\ UNCHANGED extVars

(***************************************************************************)
(* master.rs: WAIT (handle_wait).                                          *)
(***************************************************************************)
WaitNs == 0..NumReplicas
WaitTimeouts == {1}

\* line 462 without the test of inner.replication_offset
broadcasts_any_offset(num_replicas_to_wait) == num_replicas_to_wait > 0

\* line 462: the GETACK path is taken
broadcasts(num_replicas_to_wait) == num_replicas_to_wait > 0 /\ replication_offset > 0

\* lines 460-462 and 565: lock; either the immediate reply or the GETACK path
WaitBegin(c, n, timeout) ==
    /\ pc[c] = "idle" /\ ncmd < MaxCmds
    /\ InnerFree
    /\ ncmd' = ncmd + 1
    /\ cur' = [cur EXCEPT ![c] =
          [op |-> "wait", n |-> n, timeout |-> timeout, seq |-> ncmd + 1, idx |-> 1,
           k |-> 0, deadline |-> NoDeadline, entered |-> now,
           offset |-> replication_offset, targets |-> replicas,
           reported |-> 0, inTime |-> 0]]
    /\ IF broadcasts(n)
       THEN /\ masterLock' = c
            /\ pc' = [pc EXCEPT ![c] = "wait_getack"]
            /\ log' = [log EXCEPT !.bytes = @ + num_bytes(getack)]
            /\ UNCHANGED lastReply
       ELSE /\ lastReply' = [lastReply EXCEPT ![c] = Integer(Len(replicas))]
            /\ UNCHANGED <<masterLock, pc, log>>
    /\ UNCHANGED <<now, innerPoisoned, streamVars, map, replication_offset, replicas, rstate,
                   connLock, connOpen, sent, answered, acks, collectors>>
    /\ UNCHANGED extVars

\* lines 469-550: the GETACK is written to the replicas, in list order (an error
\* ends the handler); then the offset is captured, the collector thread is
\* spawned and recv_timeout starts
WaitGetack(c) ==
    /\ pc[c] = "wait_getack"
    /\ cur[c].idx <= Len(replicas) => CanWrite(replicas[cur[c].idx])
    /\ LET w == write_all([data |-> getack, seq |-> cur[c].seq], cur[c].idx, sent)
       IN  /\ sent' = w.sent
           /\ IF ~w.ok
              THEN /\ pc' = [pc EXCEPT ![c] = "closed"]
                   /\ masterLock' = NoThread
                   /\ cur' = [cur EXCEPT ![c].idx = w.idx]
                   /\ UNCHANGED collectors
              ELSE IF w.idx > Len(replicas)
              THEN /\ collectors' = Append(collectors,
                         [replicas |-> replicas, idx |-> 1, seq |-> cur[c].seq,
                          replication_offset |-> replication_offset,
                          num_replicas_to_wait |-> cur[c].n, cnt |-> 0, sentTx |-> FALSE,
                          state |-> IF replicas = <<>> THEN "done" ELSE "run"])
                   /\ cur' = [cur EXCEPT ![c].idx = w.idx,
                                         ![c].k = Len(collectors) + 1,
                                         ![c].deadline = now + cur[c].timeout]
                   /\ pc' = [pc EXCEPT ![c] = "wait_recv"]
                   /\ UNCHANGED masterLock
              ELSE /\ cur' = [cur EXCEPT ![c].idx = w.idx]
                   /\ UNCHANGED <<pc, masterLock, collectors>>
    /\ UNCHANGED <<now, innerPoisoned, ncmd, lastReply, streamVars, map, replication_offset,
                   replicas, rstate, connLock, connOpen, answered, acks, log>>
    /\ UNCHANGED extVars

\* the replicas of the list that have reported an offset >= the captured one,
\* and those that had before the instant of the timeout
Reported(c) ==
    Cardinality({i \in 1..Len(cur[c].targets) :
                    log.maxAck[cur[c].targets[i]] >= cur[c].offset})
ReportedInTime(c) ==
    Cardinality({i \in 1..Len(cur[c].targets) :
                    /\ log.maxAck[cur[c].targets[i]] >= cur[c].offset
                    /\ log.ackAt[cur[c].targets[i]] < cur[c].deadline})

\* lines 552-563: recv_timeout returns (a message, the Sender dropped, or the
\* timeout), the offset advances by the GETACK and the count is the reply
WaitReturn(c) ==
    /\ pc[c] = "wait_recv"
    /\ \/ collectors[cur[c].k].sentTx
       \/ collectors[cur[c].k].state = "done"
       \/ cur[c].deadline <= now
    /\ replication_offset' = replication_offset + num_bytes(getack)
    /\ lastReply' = [lastReply EXCEPT ![c] = Integer(collectors[cur[c].k].cnt)]
    /\ cur' = [cur EXCEPT ![c].reported = Reported(c), ![c].inTime = ReportedInTime(c)]
    /\ masterLock' = NoThread
    /\ pc' = [pc EXCEPT ![c] = "idle"]
    /\ UNCHANGED <<now, innerPoisoned, ncmd, streamVars, map, replicas, rstate, connLock,
                   connOpen, sent, answered, acks, collectors, log>>
    /\ UNCHANGED extVars

\* the collector after one read_data, lines 518-547
collected(col, offset) ==
    LET counts == offset >= col.replication_offset
        cnt == IF counts THEN col.cnt + 1 ELSE col.cnt
        reached == counts /\ cnt = col.num_replicas_to_wait
    IN  [col EXCEPT !.cnt = cnt,
                    !.sentTx = reached,
                    !.idx = col.idx + 1,
                    !.state = IF reached \/ col.idx + 1 > Len(col.replicas) THEN "done" ELSE "run"]

\* Buffer::read_data has returned: the ACK at the head of the buffer, or the
\* error of a closed socket, which ends the thread
read_done(k, r) ==
    IF acks[r] # <<>>
    THEN /\ acks' = [acks EXCEPT ![r] = Tail(@)]
         /\ collectors' = [collectors EXCEPT ![k] = collected(@, Head(acks[r]))]
    ELSE /\ collectors' = [collectors EXCEPT ![k].state = "done"]
         /\ UNCHANGED acks

\* the collector thread, line 517: Connection::read_data locks the buffer and
\* reads; with nothing to read from an open socket it blocks in load_more,
\* holding the lock
CollectorRead(k) ==
    /\ k \in 1..Len(collectors)
    /\ collectors[k].state = "run"
    /\ LET r == collectors[k].replicas[collectors[k].idx]
       IN  /\ connLock[r] = NoThread
           /\ IF acks[r] # <<>> \/ ~connOpen[r]
              THEN /\ read_done(k, r)
                   /\ UNCHANGED connLock
              ELSE /\ connLock' = [connLock EXCEPT ![r] = CollectorThread(k)]
                   /\ collectors' = [collectors EXCEPT ![k].state = "reading"]
                   /\ UNCHANGED acks
    /\ UNCHANGED <<now, masterLock, innerPoisoned, pc, ncmd, cur, lastReply, streamVars, map,
                   replication_offset, replicas, rstate, connOpen, sent, answered, log>>
    /\ UNCHANGED extVars

\* the blocked read returns and the lock is released
CollectorWake(k) ==
    /\ k \in 1..Len(collectors)
    /\ collectors[k].state = "reading"
    /\ LET r == collectors[k].replicas[collectors[k].idx]
       IN  /\ acks[r] # <<>> \/ ~connOpen[r]
           /\ connLock' = [connLock EXCEPT ![r] = NoThread]
           /\ read_done(k, r)
    /\ UNCHANGED <<now, masterLock, innerPoisoned, pc, ncmd, cur, lastReply, streamVars, map,
                   replication_offset, replicas, rstate, connOpen, sent, answered, log>>
    /\ UNCHANGED extVars

(***************************************************************************)
(* Claims on streams.                                                      *)
(***************************************************************************)

\* C1: in every reachable state of a stream the ids of its entries, in
\* insertion order, are strictly increasing, whatever the interleaving of
\* the XADDs of the connections.
C1_EntryIdsIncreasing ==
    \A s \in StreamKeys : \A i, j \in 1..Len(streams[s].entries) :
        i < j => IdLt(streams[s].entries[i].id, streams[s].entries[j].id)

\* two connections have added to the stream and an XADD was refused
C1_Witness ==
    /\ Len(streams["s"].entries) >= 2
    /\ lastReply[2].k = "BulkString"
    /\ lastReply[1] = SimpleError(NOT_INCREASING_ERR_MSG)

\* C8: an XREAD BLOCK on "$" replies with exactly the entries added to the
\* stream after it captured the max id and before its timeout, never with
\* null when there is one.
C8_BlockedXreadSeesEveryXadd ==
    \A c \in Clients :
        (/\ pc[c] = "idle"
         /\ cur[c].op = "xread"
         /\ cur[c].block # NoBlock
         /\ cur[c].sas[1].start.form = "$"
         /\ cur[c].expected # <<>>)
        => lastReply[c] = XreadReply(<<[stream |-> cur[c].sas[1].stream, entries |-> cur[c].expected]>>)

SpecStream == Init /\ [][NextStream]_vars

NextStore ==
    \/ Tick
    \/ \E c \in Clients, k \in Keys : Get(c, k)
    \/ \E c \in Clients, k \in Keys, v \in Values, px \in PxArgs : SetBegin(c, k, v, px)
    \/ \E c \in Clients : SetPropagate(c)

SpecStore == Init /\ [][NextStore]_vars

(***************************************************************************)
(* Claims on the string mapping.                                           *)
(***************************************************************************)

\* what GET k must reply, from the last SET k v PX t a client was answered
\* +OK for and the time of the GET
GetExpired(g) == g.last.px # NoPx /\ g.at >= g.last.at + g.last.px

\* C10: GET k never returns a value whose expiration instant is <= the
\* current time: once t ms have passed since SET k v PX t, GET k replies the
\* null bulk string and removes the entry from the mapping; before that it
\* replies v.
C10_GetNeverReturnsExpired ==
    \A c \in Clients :
        (cur[c].op = "get" /\ cur[c].last.any) =>
            IF GetExpired(cur[c])
            THEN lastReply[c] = NullBulkString /\ cur[c].removed
            ELSE lastReply[c] = BulkString(cur[c].last.value)

\* a GET before the expiry has replied v and a GET at the expiry instant null
C10_Witness ==
    /\ cur[1].op = "get" /\ cur[1].last.any /\ ~GetExpired(cur[1])
    /\ cur[1].last.px # NoPx
    /\ cur[2].op = "get" /\ cur[2].last.any /\ GetExpired(cur[2])
    /\ cur[2].at = cur[2].last.at + cur[2].last.px
    /\ cur[2].removed

NextRepl ==
    \/ TickWait
    \/ \E c \in Clients : SetBegin(c, "k", "v", NoPx)
    \/ \E c \in Clients : SetPropagate(c)
    \/ \E r \in Replicas : Psync(r)
    \/ \E r \in Replicas : Promote(r)
    \/ \E r \in Replicas : PeerAck(r)
    \/ \E r \in Replicas : PeerClose(r)
    \/ \E c \in Clients, n \in WaitNs, t \in WaitTimeouts : WaitBegin(c, n, t)
    \/ \E c \in Clients : WaitGetack(c)
    \/ \E c \in Clients : WaitReturn(c)
    \/ \E k \in 1..MaxCmds : CollectorRead(k)
    \/ \E k \in 1..MaxCmds : CollectorWake(k)

Spec == Init /\ [][NextRepl]_vars

(***************************************************************************)
(* Claims on replication and WAIT.                                         *)
(***************************************************************************)

\* the handler of connection c has finished its command
Finished(c) == pc[c] \in {"idle", "closed"}

\* the writes of command number q on the connection of replica r
WritesOf(q, r) == {i \in 1..Len(sent[r]) : sent[r][i].seq = q}

Range(f) == {f[i] : i \in DOMAIN f}

\* C2: a SET the master has answered +OK is written, as the same array,
\* exactly once to every replica handle in the replicas list at that moment
\* (here: to every such replica whose peer is still there).
C2_SetWrittenOnceToEveryReplica ==
    \A c \in Clients :
        (cur[c].op = "set" /\ Finished(c)) =>
            \A r \in Range(cur[c].targets) :
                connOpen[r] =>
                    /\ Cardinality(WritesOf(cur[c].seq, r)) = 1
                    /\ \A i \in WritesOf(cur[c].seq, r) : sent[r][i].data = cur[c].vs

\* C3: every replica connection carries the SETs in the order in which the
\* master applied them to its store, and the GETACK of a WAIT after every SET
\* handled before that WAIT.
C3_ReplicaOrderIsMasterOrder ==
    \A r \in Replicas : \A i, j \in 1..Len(sent[r]) :
        i < j => sent[r][i].seq < sent[r][j].seq

\* a replica has received two SETs and then a GETACK, from two connections
C3_Witness ==
    \E r \in Replicas :
        /\ Len(sent[r]) = 3
        /\ sent[r][1].data = SetArray("k", "v", NoPx)
        /\ sent[r][2].data = SetArray("k", "v", NoPx)
        /\ sent[r][3].data = getack
        /\ cur[1].op = "set" /\ cur[2].op = "wait"

\* C4: whenever no handler is at work, replication_offset is the sum of the
\* byte lengths of the arrays of the SETs handled and of the GETACK arrays
\* broadcast.
C4_OffsetIsSumOfPropagated ==
    masterLock = NoThread => replication_offset = log.bytes

Min(a, b) == IF a <= b THEN a ELSE b

\* C5: a WAIT n with n > 0 on a non-zero offset replies the number of
\* replicas that have reported an ACK offset >= the offset captured at its
\* entry: no more than have reported when it replies, and no fewer than had
\* reported before the instant of its timeout (n, once n or more had).
C5_WaitRepliesReportedCount ==
    \A c \in Clients :
        (/\ cur[c].op = "wait" /\ pc[c] = "idle"
         /\ cur[c].n > 0 /\ cur[c].offset > 0)
        => \E m \in Min(cur[c].n, cur[c].inTime)..cur[c].reported :
               lastReply[c] = Integer(m)

\* C6: a WAIT with n = 0, or on a zero replication_offset, replies at once
\* the number of registered replicas, writes nothing to any replica and
\* leaves replication_offset as it was.
C6_WaitImmediate ==
    [][\A c \in Clients :
          (/\ ncmd' = ncmd + 1
           /\ cur'[c] # cur[c]
           /\ cur'[c].op = "wait"
           /\ cur'[c].n = 0 \/ replication_offset = 0)
          => /\ pc'[c] = "idle"
             /\ lastReply'[c] = Integer(Len(replicas))
             /\ sent' = sent
             /\ replication_offset' = replication_offset
             /\ masterLock' = masterLock]_vars

\* WAIT 0 on a non-zero offset was answered the number of replicas, which is
\* not zero, and nothing was written for it
C6_Witness ==
    \E c \in Clients :
        /\ cur[c].op = "wait" /\ pc[c] = "idle"
        /\ cur[c].n = 0 /\ cur[c].offset > 0
        /\ Len(cur[c].targets) = NumReplicas
        /\ lastReply[c] = Integer(NumReplicas)
        /\ \A r \in Replicas : WritesOf(cur[c].seq, r) = {}
        /\ replication_offset = cur[c].offset

\* C7: a WAIT has replied by the time its timeout has passed since its entry.
C7_WaitRepliesByTimeout ==
    \A c \in Clients :
        (pc[c] \in {"wait_getack", "wait_recv"}) => now <= cur[c].entered + cur[c].timeout

\* C9: a write on a replica connection is never kept waiting by a thread
\* blocked in read_data on that connection.
C9_PendingReadNeverBlocksWrite ==
    \A c \in Clients :
        (pc[c] \in {"set_propagate", "wait_getack"} /\ cur[c].idx <= Len(replicas))
        => \A k \in 1..Len(collectors) :
               collectors[k].state = "reading"
               => connLock[replicas[cur[c].idx]] # CollectorThread(k)

(***************************************************************************)
(* master.rs: KEYS, answered from the store of the Rdb read at start.      *)
(***************************************************************************)
\* the keys an RDB file may hold besides those the clients write
RdbKeys == Keys \cup {"r"}

\* the stores Rdb::read can return at time 0: each string with no expiry or
\* with one still to come
RdbStores ==
    UNION {[ks -> [value : {"v"}, expiration : {NoExpiry} \cup (1..MaxTime)]] : ks \in SUBSET RdbKeys}

\* Store::data on the store m: the expired strings are dropped from it
data(m) == [k \in {q \in DOMAIN m : ~has_expired(m[q])} |-> m[k]]

\* the orders in which a HashMap may iterate over the keys ks
Orders(ks) ==
    {o \in [1..Cardinality(ks) -> ks] : \A i, j \in 1..Cardinality(ks) : i # j => o[i] # o[j]}

\* the "keys" arm, lines 148-160: the keys of self.rdb.store.data() as an array
\* of bulk strings; Master.inner is not locked
KeysCmd(c) ==
    /\ pc[c] = "idle" /\ ncmd < MaxCmds
    /\ ncmd' = ncmd + 1
    /\ rdb' = data(rdb)
    /\ \E o \in Orders(DOMAIN data(rdb)) :
          lastReply' = [lastReply EXCEPT ![c] = Array([i \in DOMAIN o |-> BulkString(o[i])])]
    /\ cur' = [cur EXCEPT ![c] =
          [op |-> "keys", live |-> {k \in DOMAIN map : ~has_expired(map[k])}]]
    /\ UNCHANGED <<now, masterLock, innerPoisoned, pc, streamVars, map, replVars,
                   hs, repl, conn, codec>>

InitKeys ==
    /\ \E f \in RdbStores : Master_new(f)
    /\ NoHandshake /\ NoReplica /\ NoConn /\ NoCodec

NextKeys ==
    \/ Tick
    \/ \E c \in Clients, k \in Keys : Get(c, k)
    \/ \E c \in Clients, k \in Keys, v \in Values, px \in PxArgs : SetBegin(c, k, v, px)
    \/ \E c \in Clients : SetPropagate(c)
    \/ \E c \in Clients : KeysCmd(c)

SpecKeys == InitKeys /\ [][NextKeys]_vars

\* C11: the reply to KEYS * is an array of bulk strings holding, once each,
\* exactly the keys of the master's string mapping that have not expired
\* when the command is handled: a key a client SET is there until it expires.
C11_KeysRepliesLiveKeys ==
    \A c \in Clients :
        cur[c].op = "keys" =>
            /\ lastReply[c].k = "Array"
            /\ Len(lastReply[c].v) = Cardinality(cur[c].live)
            /\ Range(lastReply[c].v) = {BulkString(k) : k \in cur[c].live}

(***************************************************************************)
(* data.rs: the codec applied to values, to prefixes of their encodings    *)
(* and to encodings with one byte replaced (tests, lines 396-486).         *)
(***************************************************************************)
MaxStrLen == 2
MaxArrayLen == 2

SeqsUpTo(S, n) == UNION {[1..m -> S] : m \in 0..n}

\* the bytes of a simple string or error (no CR), and of a bulk string
LineBodies == SeqsUpTo({"a", "1", LF}, MaxStrLen)
BulkBodies == SeqsUpTo({"a", CR, LF}, MaxStrLen) \cup {[i \in 1..10 |-> "a"]}
IntValues == {-10, -1, 0, 7, 10}

Scalars ==
    {SimpleString(b) : b \in LineBodies} \cup {SimpleError(b) : b \in LineBodies}
    \cup {BulkString(b) : b \in BulkBodies} \cup {NullBulkString}
    \cup {Integer(i) : i \in IntValues}

\* the elements of the arrays
Elements ==
    {SimpleString(<<"a">>), BulkString(<<CR, LF>>), NullBulkString, Integer(-10),
     SimpleError(<<"a">>)}

ArraysOver(E, n) == {Array(vs) : vs \in SeqsUpTo(E, n)}

\* arrays of elements and of arrays, three levels deep
Arrays ==
    ArraysOver(Elements \cup ArraysOver(Elements, 1), MaxArrayLen)
    \cup {Array(<<Array(<<a>>)>>) : a \in ArraysOver(Elements, 1)}

DataValues == Scalars \cup Arrays

\* the byte that replaces one of an encoding
Garbage == "a"

InitCodec ==
    /\ Master_new(Store_new)
    /\ NoHandshake /\ NoReplica /\ NoConn
    /\ codec \in {[st |-> "value", v |-> v, buf |-> <<>>, how |-> "whole", at |-> 0,
                   res |-> NeedMoreBytes] : v \in DataValues}

\* let encoded = data.encode()
Encode ==
    /\ codec.st = "value"
    /\ codec' = [codec EXCEPT !.st = "encoded", !.buf = encode(codec.v)]
    /\ UNCHANGED <<masterVars, rdb, hs, repl, conn>>

\* the caller has only the first k bytes of the encoding
Truncate(k) ==
    /\ codec.st = "encoded" /\ codec.how = "whole"
    /\ k < Len(codec.buf)
    /\ codec' = [codec EXCEPT !.buf = SubSeq(codec.buf, 1, k), !.how = "prefix", !.at = k]
    /\ UNCHANGED <<masterVars, rdb, hs, repl, conn>>

\* the i-th byte of the encoding is not the one the sender meant
Corrupt(i) ==
    /\ codec.st = "encoded" /\ codec.how = "whole"
    /\ i \in 1..Len(codec.buf)
    /\ codec.buf[i] # Garbage
    /\ codec' = [codec EXCEPT !.buf[i] = Garbage, !.how = "malformed", !.at = i]
    /\ UNCHANGED <<masterVars, rdb, hs, repl, conn>>

\* Data::decode(&encoded)
Decode ==
    /\ codec.st = "encoded"
    /\ codec' = [codec EXCEPT !.st = "decoded", !.res = decode(codec.buf)]
    /\ UNCHANGED <<masterVars, rdb, hs, repl, conn>>

\* the longest encoding of a value of the model, with room to spare
MaxEncoded == 64

NextCodec ==
    \/ Encode
    \/ \E k \in 0..MaxEncoded : Truncate(k)
    \/ \E i \in 1..MaxEncoded : Corrupt(i)
    \/ Decode

SpecCodec == InitCodec /\ [][NextCodec]_vars

\* C18: for every value v of the codec, decoding the encoding of v returns v
\* and the length of the encoding, and num_bytes(v) is that length.
C18_RoundTrip ==
    /\ (codec.st \in {"encoded", "decoded"} /\ codec.how = "whole")
          => num_bytes(codec.v) = Len(codec.buf)
    /\ (codec.st = "decoded" /\ codec.how = "whole")
          => codec.res = Ok(codec.v, Len(codec.buf))

\* a nested array with a two-digit bulk string beside it have made the round trip
C18_Witness ==
    /\ codec.st = "decoded" /\ codec.how = "whole"
    /\ codec.v = Array(<<Array(<<SimpleError(<<"a">>)>>), BulkString(<<CR, LF>>)>>)
    /\ codec.res.kind = "ok"

\* C19: decode of a proper prefix of an encoded value, of any type, returns
\* the NeedMoreBytes error: no value, no other error, no panic.
C19_PrefixNeedsMoreBytes ==
    (codec.st = "decoded" /\ codec.how = "prefix") => codec.res = NeedMoreBytes

\* what each byte of the encoding of d is: the tag, a digit of a length or
\* count, the CR or LF of a CRLF, or data.  The CR that ends a simple string
\* or error is "eol": the decoder searches for it, it does not expect it at
\* a place.
Rep(n, r) == [i \in 1..n |-> r]
RECURSIVE Roles(_)
RECURSIVE RolesOfElements(_, _)
Roles(d) ==
    CASE d.k \in {"SimpleString", "SimpleError"} -> <<"tag">> \o Rep(Len(d.v), "data") \o <<"eol", "lf">>
      [] d.k = "BulkString" ->
            <<"tag">> \o Rep(DecLen(Len(d.v)), "num") \o <<"cr", "lf">>
            \o Rep(Len(d.v), "data") \o <<"cr", "lf">>
      [] d.k = "NullBulkString" -> <<"tag", "num", "num", "cr", "lf">>
      [] d.k = "Integer" -> <<"tag">> \o Rep(IntLen(d.v), "data") \o <<"cr", "lf">>
      [] d.k = "Array" ->
            <<"tag">> \o Rep(DecLen(Len(d.v)), "num") \o <<"cr", "lf">> \o RolesOfElements(d.v, 1)
RolesOfElements(vs, i) ==
    IF i > Len(vs) THEN <<>> ELSE Roles(vs[i]) \o RolesOfElements(vs, i + 1)

\* C20: decode of an input with an unknown tag byte, a non-digit in a length
\* or a count, or another byte where CR or LF is expected, returns an error
\* other than NeedMoreBytes; it does not panic.
C20_MalformedIsProtocolError ==
    (/\ codec.st = "decoded"
     /\ codec.how = "malformed"
     /\ Roles(codec.v)[codec.at] \in {"tag", "num", "cr", "lf"})
    => (codec.res.kind = "err" /\ codec.res # NeedMoreBytes)

(***************************************************************************)
(* connection.rs: the framed connection of a client.  The peer has sent    *)
(* conn.cmds, encoded one after the other; TCP delivers conn.wire in       *)
(* segments of any size; read_data decodes from Buffer.buffer and loads    *)
(* more when the decoder needs more bytes.                                 *)
(***************************************************************************)
MaxStream == 3
\* the longest segment TCP delivers: longer than the streams of the model
MaxSegment == 96
\* the size of the read buffer of load_more
ReadSize == 1024

PING == <<"P", "I", "N", "G">>
ECHO == <<"E", "C", "H", "O">>
PONG == <<"P", "O", "N", "G">>

Commands ==
    {Array(<<BulkString(PING)>>), Array(<<BulkString(ECHO), BulkString(<<CR, LF>>)>>)}

\* what follows the commands on the wire: nothing, or a byte that starts no value
Junk == {<<>>, <<Garbage>>}

\* handle_data, the "ping" and "echo" arms: the value written back
ping_echo(d) ==
    IF d.v[1].v = PING THEN SimpleString(PONG) ELSE BulkString(d.v[2].v)

\* self.buffer[num_bytes..] with the slice forgotten: the buffer is emptied
consume_whole(buffer, n) == <<>>

\* read_data, line 40: self.buffer = self.buffer[num_bytes..].to_vec()
consume(buffer, n) == From(buffer, n)

InitConn ==
    /\ Master_new(Store_new)
    /\ NoHandshake /\ NoReplica /\ NoCodec
    /\ conn \in {[cmds |-> cs, junk |-> j, wire |-> encode_elements(cs, 1) \o j, buffer |-> <<>>,
                  got |-> <<>>, replies |-> <<>>, st |-> "open", split |-> FALSE,
                  batch |-> FALSE] : cs \in SeqsUpTo(Commands, MaxStream), j \in Junk}

\* read_data finds no whole value in the buffer; load_more: stream.read returns
\* the next n bytes, at most ReadSize, which are appended to the buffer
LoadMore(n) ==
    /\ n >= 1 /\ n <= ReadSize /\ n <= Len(conn.wire)
    /\ conn.st = "open"
    /\ decode(conn.buffer) = NeedMoreBytes
    /\ LET buffer == conn.buffer \o SubSeq(conn.wire, 1, n)
       IN  conn' = [conn EXCEPT
                !.buffer = buffer,
                !.wire = From(conn.wire, n),
                !.split = @ \/ (n < Len(conn.wire) /\ decode(buffer) = NeedMoreBytes),
                !.batch = @ \/ (/\ decode(buffer).kind = "ok"
                                /\ decode(From(buffer, decode(buffer).n)).kind = "ok")]
    /\ UNCHANGED <<masterVars, rdb, hs, repl, codec>>

\* load_more at the end of the stream: read returns 0, "TcpStream closed", and
\* handle_connection leaves its loop
Eof ==
    /\ conn.st = "open"
    /\ decode(conn.buffer) = NeedMoreBytes
    /\ conn.wire = <<>>
    /\ conn' = [conn EXCEPT !.st = "closed"]
    /\ UNCHANGED <<masterVars, rdb, hs, repl, codec>>

\* read_data returns the value at the head of the buffer and slices it off;
\* handle_data answers it
ReadData ==
    /\ conn.st = "open"
    /\ decode(conn.buffer).kind = "ok"
    /\ conn' = [conn EXCEPT
            !.buffer = consume(conn.buffer, decode(conn.buffer).n),
            !.got = Append(@, decode(conn.buffer).data),
            !.replies = Append(@, ping_echo(decode(conn.buffer).data))]
    /\ UNCHANGED <<masterVars, rdb, hs, repl, codec>>

\* read_data returns another error of the decoder (the loop is left), or the
\* decoder panics (the thread ends)
ReadFail ==
    /\ conn.st = "open"
    /\ decode(conn.buffer).kind # "ok" /\ decode(conn.buffer) # NeedMoreBytes
    /\ conn' = [conn EXCEPT !.st = IF decode(conn.buffer).kind = "err" THEN "closed" ELSE "dead"]
    /\ UNCHANGED <<masterVars, rdb, hs, repl, codec>>

NextConn ==
    \/ \E n \in 1..MaxSegment : LoadMore(n)
    \/ Eof
    \/ ReadData
    \/ ReadFail

SpecConn == InitConn /\ [][NextConn]_vars

\* C17: however the stream of encoded commands is cut into segments, the
\* values read_data has returned are the commands sent, in order; no byte is
\* lost or duplicated between the values returned, the buffer and the wire;
\* the answers are those of the commands, in order; and when the reader stops
\* or has nothing more to wait for, every command has been returned.
C17_FramingInOrder ==
    /\ Len(conn.got) <= Len(conn.cmds)
    /\ conn.got = SubSeq(conn.cmds, 1, Len(conn.got))
    /\ encode_elements(conn.got, 1) \o conn.buffer \o conn.wire
          = encode_elements(conn.cmds, 1) \o conn.junk
    /\ conn.replies = [i \in 1..Len(conn.got) |-> ping_echo(conn.cmds[i])]
    /\ (conn.st # "open" \/ (conn.wire = <<>> /\ decode(conn.buffer).kind # "ok"))
          => conn.got = conn.cmds

\* three commands have been read and answered, one of them split across two
\* reads and two of them delivered by one read
C17_Witness ==
    /\ Len(conn.cmds) = 3
    /\ conn.got = conn.cmds
    /\ Len(conn.replies) = 3
    /\ conn.split /\ conn.batch

(***************************************************************************)
(* The handshake of the replica connections, beside the SETs of a client.  *)
(***************************************************************************)
NextHandshake ==
    \/ \E r \in Replicas : HsPing(r)
    \/ \E r \in Replicas : HsReplconf(r)
    \/ \E r \in Replicas : Psync(r)
    \/ \E r \in Replicas : Promote(r)
    \/ \E r \in Replicas : PeerSendLate(r)
    \/ \E c \in Clients : SetBegin(c, "k", "v", NoPx)
    \/ \E c \in Clients : SetPropagate(c)

SpecHandshake == Init /\ [][NextHandshake]_vars

\* what the master is to write in answer to a command of the handshake
Answers(cmd) ==
    CASE cmd = "ping" -> <<SimpleString("PONG")>>
      [] cmd = "replconf" -> <<SimpleString("OK")>>
      [] cmd = "psync" ->
            <<SimpleString("FULLRESYNC 8371b4fb1155b71f4a04d3e1bc3e18c4a990aeeb 0"),
              Raw(<<"$", "8", "8", CR, LF>> \o empty_rdb)>>

RECURSIVE AnswersTo(_, _)
AnswersTo(cmds, n) == IF n = 0 THEN <<>> ELSE AnswersTo(cmds, n - 1) \o Answers(cmds[n])

\* C12: a connection is in the replicas list at most once and stays there; it
\* is there only when the last command read from it is PSYNC ? -1, answered
\* with +FULLRESYNC <40 characters> 0 and the RDB frame ($88 CRLF and the 88
\* bytes, no CRLF after them); the commands read before were answered +PONG
\* and +OK in order; once the PSYNC is answered the dispatcher reads and
\* answers nothing more on that connection.
C12_PromotedOnceAfterPsync ==
    /\ [](\A r \in Replicas :
            /\ Cardinality({i \in DOMAIN replicas : replicas[i] = r}) <= 1
            /\ Len(replication_id) = 40
            /\ hs[r].out = AnswersTo(hs[r].sent, hs[r].read)
            /\ (\E i \in DOMAIN replicas : replicas[i] = r)
                  => (hs[r].read >= 1 /\ hs[r].sent[hs[r].read] = "psync"))
    /\ [][\A r \in Replicas :
            /\ (\E i \in DOMAIN replicas : replicas[i] = r)
                  => (\E i \in DOMAIN replicas' : replicas'[i] = r)
            /\ (hs[r].read >= 1 /\ hs[r].sent[hs[r].read] = "psync")
                  => (hs'[r].read = hs[r].read /\ hs'[r].out = hs[r].out)]_vars

\* both connections are replicas, the first after PING, REPLCONF, REPLCONF and
\* PSYNC, and the first has sent a command since that nobody has read
C12_Witness ==
    /\ Len(replicas) = 2
    /\ hs[1].read = 4
    /\ SubSeq(hs[1].sent, 1, 4) = <<"ping", "replconf", "replconf", "psync">>
    /\ Len(hs[1].sent) = 5
    /\ Len(hs[1].out) = 5

(***************************************************************************)
(* Claims on the XADDs that are refused.                                   *)
(***************************************************************************)

\* C16: an XADD whose id resolves to 0-0 is answered the simple error
\* MIN_ID_ERR_MSG, one whose id resolves to an id <= the top id of the stream
\* (and not 0-0) the simple error NOT_INCREASING_ERR_MSG; the entries and the
\* subscribers of the stream and every channel stay as they were, and the
\* connection goes on to its next command.
C16_RefusedXaddChangesNothing ==
    [][\A c \in Clients, s \in StreamKeys, spec \in IdSpecs, f \in FieldSets :
          LET id == create(spec, max_entry_id(streams[s]))
              refused == id = EntryId(0, 0) \/ IdLe(id, max_entry_id(streams[s]))
          IN  (Xadd(c, s, spec, f) /\ refused)
              => /\ lastReply'[c] = SimpleError(IF id = EntryId(0, 0) THEN MIN_ID_ERR_MSG
                                                ELSE NOT_INCREASING_ERR_MSG)
                 /\ streams'[s].entries = streams[s].entries
                 /\ streams'[s].subscribers = streams[s].subscribers
                 /\ chans' = chans
                 /\ pc'[c] = "idle"
                 /\ ~innerPoisoned']_vars

\* both errors have been answered, on a stream that has kept its one entry
C16_Witness ==
    /\ lastReply[1] = SimpleError(MIN_ID_ERR_MSG)
    /\ cur[1].op = "xadd"
    /\ lastReply[2] = SimpleError(NOT_INCREASING_ERR_MSG)
    /\ cur[2].op = "xadd"
    /\ Len(streams["s"].entries) = 1
    /\ pc = [c \in Clients |-> "idle"]

(***************************************************************************)
(* replica.rs: the replica process at the other end of a replica           *)
(* connection, after its handshake.  handle_replication reads what the     *)
(* master wrote (sent[r]) one read at a time; pos counts the frames it has *)
(* taken, written is what it wrote back on the master connection.          *)
(***************************************************************************)
\* Replica::new, lines 185-187: PSYNC is written, the answer is awaited
Replica_handshake ==
    [replication_offset |-> 0, store |-> <<>>, pos |-> 0, written |-> <<>>, st |-> "psync"]

\* Replica::new, lines 196-203: the fields of the Replica and the thread
Replica_new ==
    [replication_offset |-> 0, store |-> <<>>, pos |-> 0, written |-> <<>>, st |-> "running"]

\* what one TcpStream::read of receive() returns: the bytes of exactly one
\* frame, of more than one, or of a part of one
Reads == {"one", "many", "part"}

\* str::parse::<u64> on the argument of PX
parse_u64(str) == CHOOSE n \in 0..MaxPx : ToString(n) = str

\* lines 257-264: expire_in, None without PX
expire_in(frame) == IF Len(frame.v) = 5 THEN parse_u64(frame.v[5].v) ELSE NoPx

\* handle_propogation on a frame: only "set" is known (Store::set with the PX
\* argument as expiry), any other command array panics; replication_offset is
\* not assigned anywhere and nothing is written to the master
handle_propogation(rep, frame) ==
    IF frame.v[1] = BulkString("SET")
    THEN [rep EXCEPT !.store = [k \in (DOMAIN rep.store) \cup {frame.v[2].v} |->
                                    IF k = frame.v[2].v
                                    THEN [value |-> frame.v[3].v,
                                          expiration |-> IF expire_in(frame) = NoPx THEN NoExpiry
                                                         ELSE now + expire_in(frame)]
                                    ELSE rep.store[k]],
                     !.pos = @ + 1]
    ELSE [rep EXCEPT !.st = "panicked", !.pos = @ + 1]

\* Replica::new, lines 186-193: receive_string reads the answer to PSYNC with
\* one TcpStream::read, then skip_rdb_file reads the RDB frame byte by byte.
\* The master writes +FULLRESYNC and the RDB frame one after the other: the
\* read returns the +FULLRESYNC line alone, or with bytes of the RDB frame
\* behind it (assert_eq!(num_bytes, n) fails), or a part of the line (decode
\* returns None and receive_string(..)?.unwrap() panics).  A panic in
\* Replica::new ends the replica.
ReplicaFullresync(r, read) ==
    /\ repl[r].st = "psync"
    /\ rstate[r] # "new"
    /\ repl' = [repl EXCEPT ![r] = IF read = "one" THEN Replica_new
                                   ELSE [Replica_new EXCEPT !.st = "failed"]]
    /\ connOpen' = [connOpen EXCEPT ![r] = read = "one"]
    /\ UNCHANGED <<now, masterLock, innerPoisoned, pc, ncmd, cur, lastReply, streamVars, map,
                   replication_offset, replicas, rstate, connLock, sent, answered, acks,
                   collectors, log>>
    /\ UNCHANGED <<rdb, hs, conn, codec>>

\* receive() and the loop of handle_replication: a read of one whole frame is
\* handled; a read holding more than one frame fails assert_eq!(num_bytes, n);
\* a read holding part of a frame decodes to None and the loop is left.  When
\* the thread ends, master_stream is dropped and the connection closes.
ReplicaReceive(r, read) ==
    /\ repl[r].st = "running"
    /\ repl[r].pos < Len(sent[r])
    /\ read = "many" => repl[r].pos + 1 < Len(sent[r])
    /\ LET rep == CASE read = "one" -> handle_propogation(repl[r], sent[r][repl[r].pos + 1].data)
                    [] read = "many" -> [repl[r] EXCEPT !.st = "panicked"]
                    [] read = "part" -> [repl[r] EXCEPT !.st = "ended"]
       IN  /\ repl' = [repl EXCEPT ![r] = rep]
           /\ connOpen' = [connOpen EXCEPT ![r] = rep.st = "running"]
    /\ UNCHANGED <<now, masterLock, innerPoisoned, pc, ncmd, cur, lastReply, streamVars, map,
                   replication_offset, replicas, rstate, connLock, sent, answered, acks,
                   collectors, log>>
    /\ UNCHANGED <<rdb, hs, conn, codec>>

InitReplica ==
    /\ Master_new(Store_new)
    /\ NoHandshake /\ NoConn /\ NoCodec
    /\ repl = [r \in Replicas |-> Replica_handshake]

NextReplica ==
    \/ TickWait
    \/ \E c \in Clients : SetBegin(c, "k", "v", NoPx)
    \/ \E c \in Clients : SetPropagate(c)
    \/ \E r \in Replicas : Psync(r)
    \/ \E r \in Replicas : Promote(r)
    \/ \E r \in Replicas, read \in Reads : ReplicaFullresync(r, read)
    \/ \E r \in Replicas, read \in Reads : ReplicaReceive(r, read)
    \/ \E c \in Clients, n \in WaitNs, t \in WaitTimeouts : WaitBegin(c, n, t)
    \/ \E c \in Clients : WaitGetack(c)
    \/ \E c \in Clients : WaitReturn(c)
    \/ \E k \in 1..MaxCmds : CollectorRead(k)
    \/ \E k \in 1..MaxCmds : CollectorWake(k)

SpecReplica == InitReplica /\ [][NextReplica]_vars

\* C13: the replication_offset of a replica is the number of bytes of the
\* command arrays it has received from the master since the handshake.
C13_ReplicaOffsetCountsBytes ==
    \A r \in Replicas :
        repl[r].replication_offset = BytesBefore(sent[r], repl[r].pos + 1)

\* the answer to the i-th frame of sent[r], a GETACK: REPLCONF ACK <bytes before it>
AckOf(r, i) ==
    Array(<<BulkString("REPLCONF"), BulkString("ACK"), BulkString(ToString(BytesBefore(sent[r], i)))>>)

\* C14: for every REPLCONF GETACK * the replica has received it has written
\* REPLCONF ACK <offset> to the master, the offset being the bytes received
\* before that GETACK, and it goes on processing.
C14_GetackAnsweredWithOffsetBefore ==
    \A r \in Replicas : \A i \in 1..repl[r].pos :
        sent[r][i].data = getack =>
            /\ \E j \in DOMAIN repl[r].written : repl[r].written[j] = AckOf(r, i)
            /\ repl[r].st = "running"

\* C15: when a replica that was sent every byte the master counts has received
\* the GETACK of a WAIT, it has reported in its ACK the offset the master
\* captured at the entry of that WAIT.
C15_AckOffsetIsCapturedOffset ==
    \A c \in Clients : \A r \in Replicas : \A i \in 1..repl[r].pos :
        (/\ cur[c].op = "wait"
         /\ sent[r][i] = [data |-> getack, seq |-> cur[c].seq]
         /\ BytesBefore(sent[r], i) = cur[c].offset)
        => \E j \in DOMAIN repl[r].written :
              repl[r].written[j] =
                  Array(<<BulkString("REPLCONF"), BulkString("ACK"),
                          BulkString(ToString(cur[c].offset))>>)

(***************************************************************************)
(* The two mappings of the store under the same keys: SET, GET and TYPE on *)
(* the keys of the strings and of the streams, XADD and XREAD on the       *)
(* streams.                                                                *)
(***************************************************************************)
TypeKeys == Keys \cup OneStream

NextType ==
    \/ Tick
    \/ \E c \in Clients, k \in TypeKeys, px \in PxArgs : SetBegin(c, k, "v", px)
    \/ \E c \in Clients : SetPropagate(c)
    \/ \E c \in Clients, k \in TypeKeys : Get(c, k)
    \/ \E c \in Clients, k \in TypeKeys : Type(c, k)
    \/ \E c \in Clients, s \in OneStream, spec \in IdSpecs, f \in FieldSets : Xadd(c, s, spec, f)
    \/ \E c \in Clients, sas \in XreadArgs : XreadCapture(c, NoBlock, sas)
    \/ \E c \in Clients : XreadQuery(c)

SpecType == Init /\ [][NextType]_vars

\* C21: TYPE k replies +string when k is a key of the string mapping that has
\* not expired, otherwise +stream when k is a key of the stream mapping,
\* otherwise +none; a key of both mappings is reported as a string.
C21_TypeStringsFirst ==
    \A c \in Clients :
        cur[c].op = "type" =>
            lastReply[c] = SimpleString(IF cur[c].live THEN "string"
                                        ELSE IF cur[c].stream THEN "stream" ELSE "none")

\* TYPE has replied string for a key that is in both mappings
C21_Witness ==
    \E c \in Clients :
        /\ cur[c].op = "type" /\ cur[c].live /\ cur[c].stream
        /\ lastReply[c] = SimpleString("string")
        /\ streams[cur[c].key].entries # <<>>

C22_BlockedWaitHoldsNoLock ==
    \A c \in Clients : pc[c] = "wait_recv" => masterLock = NoThread

(***************************************************************************)
(* Claims on the subscribers of a stream.                                  *)
(***************************************************************************)

\* an XREAD that has subscribed to s past cur[c].sub, is blocked in select!
\* and has not been woken
Pending(c, s) ==
    /\ pc[c] = "xread_select"
    /\ cur[c].sas[1].stream = s
    /\ chans[cur[c].ch].msgs = 0

\* C23: when an entry with id X is appended to a stream, every pending
\* subscriber of the stream that waits past an id < X receives a wake and is
\* no longer in the subscriber set, several XREADs waiting past the same id
\* included; a subscriber that waits past an id >= X keeps its channel and
\* its place in the subscriber set as they were.
C23_AppendWakesEarlierSubscribers ==
    [][\A s \in StreamKeys :
          Len(streams'[s].entries) > Len(streams[s].entries)
          => LET X == streams'[s].entries[Len(streams'[s].entries)].id
             IN  \A c \in Clients :
                    Pending(c, s) =>
                        IF IdLt(cur[c].sub, X)
                        THEN /\ chans'[cur[c].ch].msgs = 1
                             /\ cur[c].sub \notin DOMAIN streams'[s].subscribers
                        ELSE /\ chans'[cur[c].ch] = chans[cur[c].ch]
                             /\ cur[c].sub \in DOMAIN streams[s].subscribers
                                   => /\ cur[c].sub \in DOMAIN streams'[s].subscribers
                                      /\ streams'[s].subscribers[cur[c].sub]
                                            = streams[s].subscribers[cur[c].sub]]_vars

\* a blocking XREAD on s that has returned on its timeout: its Receiver is
\* dropped and no wake was sent; its Sender is still in the subscriber set
TimedOut(x, s) ==
    /\ cur[x].op = "xread" /\ pc[x] = "idle"
    /\ cur[x].ch # 0
    /\ cur[x].sas[1].stream = s
    /\ ~chans[cur[x].ch].rx /\ chans[cur[x].ch].tx /\ chans[cur[x].ch].msgs = 0

\* C24: after a blocking XREAD on a stream has returned on its timeout, an
\* XADD on that stream with an acceptable id inserts the entry and is
\* answered the new id, its connection goes on, and the state of the master
\* stays usable by every connection.
C24_XaddAfterTimedOutXread ==
    [][\A c \in Clients, s \in StreamKeys, spec \in IdSpecs, f \in FieldSets :
          LET id == create(spec, max_entry_id(streams[s]))
              refused == id = EntryId(0, 0) \/ IdLe(id, max_entry_id(streams[s]))
          IN  (/\ Xadd(c, s, spec, f)
               /\ ~refused
               /\ \E x \in Clients : TimedOut(x, s))
              => /\ lastReply'[c] = BulkString(IdToString(id))
                 /\ id \in Ids(streams'[s])
                 /\ pc'[c] = "idle"
                 /\ ~innerPoisoned']_vars

\* C25: an XREAD BLOCK 0 replies only with entries: when it has replied, its
\* reply is a non-empty array of streams with their entries, never the null
\* bulk string, whatever the other connections did on the stream meanwhile.
C25_Block0RepliesEntries ==
    \A c \in Clients :
        (cur[c].op = "xread" /\ cur[c].block = 0 /\ pc[c] = "idle")
        => /\ lastReply[c].k = "Array"
           /\ lastReply[c].v # <<>>

(***************************************************************************)
(* Claims on the failures of a connection.                                 *)
(***************************************************************************)

\* C27: a replica connection that fails affects only that replica.  Once the
\* handler of a SET is done, the command has been written to every replica of
\* the list whose connection has not failed, replication_offset has advanced
\* by the bytes of the command, and the client's connection is still served.
C27_FailedReplicaAffectsOnlyItself ==
    \A c \in Clients :
        (cur[c].op = "set" /\ Finished(c)) =>
            /\ \A r \in Range(cur[c].targets) : connOpen[r] => WritesOf(cur[c].seq, r) # {}
            /\ masterLock = NoThread => replication_offset = log.bytes
            /\ pc[c] = "idle"

NextBad ==
    \/ \E c \in Clients, kind \in Unserved : BadCmd(c, kind)
    \/ \E c \in Clients : PoisonedLock(c)
    \/ \E c \in Clients, k \in Keys : Get(c, k)
    \/ \E c \in Clients, k \in Keys : Type(c, k)
    \/ \E c \in Clients, k \in Keys, v \in Values : SetBegin(c, k, v, NoPx)
    \/ \E c \in Clients : SetPropagate(c)

SpecBad == Init /\ [][NextBad]_vars

\* C28: a command the master cannot serve costs at most its own connection:
\* the state of the master stays usable (its mutex is never poisoned), and a
\* connection ends only on an unservable command of its own.
C28_BadCommandAffectsOnlyItsConnection ==
    /\ ~innerPoisoned
    /\ \A c \in Clients : pc[c] \in {"dead", "closed"} => cur[c].op = "bad"

\* the first i frames written to replica r are all SET commands
AllSets(r, i) == \A j \in 1..i : sent[r][j].data.v[1] = BulkString("SET")

\* C29: the replica gets through the handshake and its worker applies every
\* propagated command once and in order, however the bytes are cut into
\* reads: the read of the answer to PSYNC never fails, and the worker does
\* not stop before a SET that the master has written to it (two commands in
\* one read and a command split over two reads included); the store holds
\* the value of the last SET taken.
C29_AppliedOnceWhateverTheSegments ==
    \A r \in Replicas :
        /\ repl[r].st # "failed"
        /\ \A i \in 1..Len(sent[r]) :
              AllSets(r, i) => (repl[r].st \in {"psync", "running"} \/ repl[r].pos >= i)
        /\ (repl[r].pos >= 1 /\ AllSets(r, repl[r].pos))
              => /\ sent[r][repl[r].pos].data.v[2].v \in DOMAIN repl[r].store
                 /\ repl[r].store[sent[r][repl[r].pos].data.v[2].v].value
                       = sent[r][repl[r].pos].data.v[3].v

(***************************************************************************)
(* replica.rs: the worker fed by any master.  The master at the other end  *)
(* of the connection writes PINGs and SETs, with PX or without.            *)
(***************************************************************************)
PingArray == Array(<<BulkString("PING")>>)

Propagated == {PingArray} \cup {SetArray(k, "v", px) : k \in Keys, px \in PxArgs}

\* the master writes a command on the connection of replica r
MasterSends(r, frame) ==
    /\ connOpen[r]
    /\ Len(sent[r]) < MaxFrames
    /\ sent' = [sent EXCEPT ![r] = Append(@, [data |-> frame, seq |-> 0])]
    /\ UNCHANGED <<now, masterLock, innerPoisoned, pc, ncmd, cur, lastReply, streamVars, map,
                   replication_offset, replicas, rstate, connLock, connOpen, answered, acks,
                   collectors, log>>
    /\ UNCHANGED extVars

InitWorker ==
    /\ Master_new(Store_new)
    /\ NoHandshake /\ NoConn /\ NoCodec
    /\ repl = [r \in Replicas |-> Replica_new]

NextWorker ==
    \/ Tick
    \/ \E r \in Replicas, frame \in Propagated : MasterSends(r, frame)
    \/ \E r \in Replicas, read \in Reads : ReplicaReceive(r, read)

SpecWorker == InitWorker /\ [][NextWorker]_vars

\* C30: when the worker of a replica handles a propagated PING or SET it
\* writes nothing to the master and goes on to read the next command; the
\* SET has put its value in the local store, expiring PX ms from now when
\* PX is given, and the PING has left the store as it was.
C30_PingAndSetUnanswered ==
    [][\A r \in Replicas :
          repl'[r].pos = repl[r].pos + 1
          => LET frame == sent[r][repl[r].pos + 1].data
             IN  /\ repl'[r].written = repl[r].written
                 /\ repl'[r].st = "running"
                 /\ frame = PingArray => repl'[r].store = repl[r].store
                 /\ \A k \in Keys, px \in PxArgs :
                       frame = SetArray(k, "v", px)
                       => /\ k \in DOMAIN repl'[r].store
                          /\ repl'[r].store[k] =
                                [value |-> "v",
                                 expiration |-> IF px = NoPx THEN NoExpiry ELSE now + px]]_vars

(***************************************************************************)
(* C31: the id of an XADD.                                                 *)
(***************************************************************************)
\* the id the three forms stand for, given the stream's max id
resolved(spec, curr_max) ==
    IF spec.form = "*"
    THEN EntryId(now, IF curr_max.ms = now THEN curr_max.seq + 1 ELSE 0)
    ELSE IF spec.form = "ms-*"
    THEN EntryId(spec.ms, IF spec.ms = curr_max.ms THEN curr_max.seq + 1
                          ELSE IF spec.ms = 0 THEN 1 ELSE 0)
    ELSE EntryId(spec.ms, spec.seq)

\* C31: an XADD resolves "*" to (now, seq_max + 1 if ms_max = now else 0),
\* "<ms>-*" to (ms, seq_max + 1 if ms = ms_max, else 1 if ms = 0, else 0)
\* and takes "<ms>-<seq>" literally; an XADD * in the millisecond of the
\* stream's max id therefore succeeds and replies that id.
C31_XaddResolvesId ==
    [][\A c \in Clients, s \in StreamKeys, spec \in IdSpecs, f \in FieldSets :
          (Xadd(c, s, spec, f) /\ pc'[c] = "idle")
          => LET curr_max == max_entry_id(or_insert(s))
             IN  /\ stream_set_id(s, spec) = resolved(spec, curr_max)
                 /\ (spec.form = "*" /\ curr_max.ms = now)
                    => lastReply'[c] = BulkString(IdToString(EntryId(now, curr_max.seq + 1)))]_vars

(***************************************************************************)
(* master.rs: XRANGE.                                                      *)
(***************************************************************************)
\* The start argument of XRANGE: "-", "<ms>" or "<ms>-<seq>"; its end
\* argument: "+", "<ms>" or "<ms>-<seq>".
RangeStarts ==
    {[form |-> "-", ms |-> 0, seq |-> 0]}
    \cup {[form |-> "ms", ms |-> m, seq |-> 0] : m \in 0..MaxMs}
    \cup {[form |-> "ms-seq", ms |-> m, seq |-> q] : m \in 0..MaxMs, q \in 0..MaxSeq}
RangeEnds ==
    {[form |-> "+", ms |-> 0, seq |-> 0]}
    \cup {[form |-> "ms", ms |-> m, seq |-> 0] : m \in 0..MaxMs}
    \cup {[form |-> "ms-seq", ms |-> m, seq |-> q] : m \in 0..MaxMs, q \in 0..MaxSeq}

\* the "xrange" arm: the guard of self.inner is alive while the range is taken
Xrange(c, s, start, end) ==
    /\ pc[c] = "idle" /\ ncmd < MaxCmds
    /\ InnerFree
    /\ ncmd' = ncmd + 1
    /\ cur' = [cur EXCEPT ![c] = [op |-> "xrange", stream |-> s, start |-> start, end |-> end]]
    /\ IF /\ streams[s].exists /\ streams[s].entries # <<>>
          /\ range_panics(Included(create_start(start)), Included(create_end(end)))
       THEN /\ innerPoisoned' = TRUE
            /\ Die(c)
            /\ UNCHANGED lastReply
       ELSE /\ lastReply' = [lastReply EXCEPT ![c] = entries_to_array(
                   get_stream_range(s, Included(create_start(start)), Included(create_end(end))))]
            /\ UNCHANGED <<innerPoisoned, pc>>
    /\ UNCHANGED <<now, masterLock, streams, chans, map, replVars>>
    /\ UNCHANGED extVars

(***************************************************************************)
(* XADD, XREAD without BLOCK and XRANGE over two streams.                  *)
(***************************************************************************)
\* XREAD streams <k1> [<k2>] <id1> [<id2>]
XreadArgs2 ==
    XreadArgs
    \cup {<<[stream |-> "s", start |-> a], [stream |-> "t", start |-> b]>> : a, b \in StartSpecs}

LiteralIds == {spec \in IdSpecs : spec.form = "ms-seq"}

NextRange ==
    \/ \E s \in StreamKeys, spec \in LiteralIds, f \in FieldSets : Xadd(1, s, spec, f)
    \/ \E sas \in XreadArgs2 : XreadCapture(1, NoBlock, sas)
    \/ XreadQuery(1)
    \/ \E s \in StreamKeys, start \in RangeStarts, end \in RangeEnds : Xrange(1, s, start, end)
    \/ \E c \in Clients : PoisonedLock(c)

SpecRange == Init /\ [][NextRange]_vars

(***************************************************************************)
(* C32: XREAD without BLOCK.                                               *)
(***************************************************************************)
\* the entries of stream s above id, by increasing id
EntriesAbove(s, id) ==
    ById({streams[s].entries[i] : i \in {j \in 1..Len(streams[s].entries) :
            IdLt(id, streams[s].entries[j].id)}})

\* the id an argument of XREAD stands for ("$": the max id of the stream)
GivenId(sa) ==
    IF sa.start.form = "$" THEN max_entry_id(streams[sa.stream])
    ELSE EntryId(sa.start.ms, sa.start.seq)

\* the requested streams that have an entry above their given id
Served(sas) == SelectSeq(sas, LAMBDA sa : EntriesAbove(sa.stream, GivenId(sa)) # <<>>)

\* C32: an XREAD without BLOCK never waits for a subscription, and its
\* reply lists, for each requested stream with entries above the given id,
\* the key and exactly those entries by increasing id; the other streams
\* are left out, and the reply is the null bulk string when none is left.
C32_XreadWithoutBlock ==
    [][\A c \in Clients :
          /\ (cur'[c].op = "xread" /\ cur'[c].block = NoBlock)
             => pc'[c] \in {"idle", "xread_query", "dead"}
          /\ (XreadQuery(c) /\ cur[c].block = NoBlock)
             => /\ pc'[c] = "idle"
                /\ lastReply'[c] =
                     IF Served(cur[c].sas) = <<>> THEN NullBulkString
                     ELSE Array([i \in 1..Len(Served(cur[c].sas)) |->
                            Array(<<BulkString(Served(cur[c].sas)[i].stream),
                                    entries_to_array(EntriesAbove(Served(cur[c].sas)[i].stream,
                                                                 GivenId(Served(cur[c].sas)[i])))>>)])]_vars

\* an XREAD of two streams was answered with one of them, with its two
\* entries, the other stream having nothing above the given id
C32_Witness ==
    /\ pc[1] = "idle" /\ cur[1].op = "xread" /\ cur[1].block = NoBlock
    /\ Len(cur[1].sas) = 2
    /\ lastReply[1].k = "Array" /\ Len(lastReply[1].v) = 1
    /\ Len(lastReply[1].v[1].v[2].v) = 2

(***************************************************************************)
(* C33: XRANGE.                                                            *)
(***************************************************************************)
\* the entries of stream s with ids in the inclusive interval [lo, hi], by id
EntriesWithin(s, lo, hi) ==
    ById({streams[s].entries[i] : i \in {j \in 1..Len(streams[s].entries) :
            IdLe(lo, streams[s].entries[j].id) /\ IdLe(streams[s].entries[j].id, hi)}})

StartId(a) ==
    IF a.form = "-" THEN EntryId(0, 0)
    ELSE IF a.form = "ms" THEN EntryId(a.ms, 0) ELSE EntryId(a.ms, a.seq)

EndId(a) ==
    IF a.form = "+" THEN EntryId(U64_MAX, U64_MAX)
    ELSE IF a.form = "ms" THEN EntryId(a.ms, U64_MAX) ELSE EntryId(a.ms, a.seq)

\* C33: XRANGE key start end replies the entries of the stream with ids in
\* the inclusive interval [start, end], by increasing id ("-" is (0,0),
\* "+" is (MAX,MAX), "<ms>" is (ms,0) as a start and (ms,MAX) as an end);
\* a key with no stream gives the empty array; the store is unchanged.
C33_XrangeRepliesInterval ==
    [][\A c \in Clients, s \in StreamKeys, start \in RangeStarts, end \in RangeEnds :
          Xrange(c, s, start, end)
          => /\ pc'[c] = "idle"
             /\ lastReply'[c] = entries_to_array(EntriesWithin(s, StartId(start), EndId(end)))
             /\ ~streams[s].exists => lastReply'[c] = Array(<<>>)
             /\ streams' = streams /\ map' = map]_vars

(***************************************************************************)
(* C34: the expiry of the keys loaded from the RDB file.                   *)
(***************************************************************************)
\* C34: a key the RDB file gave an expiry instant is not served once that
\* instant has passed: unless a client SET it since, GET replies the null
\* bulk string for it from the expiry instant on.
C34_RdbExpiryHonoured ==
    [][\A c \in Clients, k \in Keys :
          (/\ Get(c, k)
           /\ k \in DOMAIN rdb /\ has_expired(rdb[k])
           /\ ~log.set[k].any)
          => lastReply'[c] = NullBulkString]_vars

(***************************************************************************)
(* rdb.rs: the length encoding.  Bytes are the numbers 0..255; u16 and     *)
(* usize keep their width where a shift could overflow it.                 *)
(***************************************************************************)
RECURSIVE BitAnd(_, _)
BitAnd(a, b) ==
    IF a = 0 \/ b = 0 THEN 0
    ELSE (a % 2) * (b % 2) + 2 * BitAnd(a \div 2, b \div 2)

RECURSIVE BitOr(_, _)
BitOr(a, b) ==
    IF a = 0 THEN b ELSE IF b = 0 THEN a
    ELSE (IF a % 2 = 1 \/ b % 2 = 1 THEN 1 ELSE 0) + 2 * BitOr(a \div 2, b \div 2)

\* x << n on a u16
Shl16(x, n) == (x * (2 ^ n)) % 65536

\* u32::from_le_bytes, u16::from_le_bytes, u8::from_le_bytes
RECURSIVE from_le_bytes(_)
from_le_bytes(buf) == IF buf = <<>> THEN 0 ELSE buf[1] + 256 * from_le_bytes(Tail(buf))

\* the 14-bit length with the six bits of the first byte as the high bits
decode_length_01_high_first(bytes) == BitOr(Shl16(BitAnd(bytes[1], 63), 8), bytes[2])

decode_length_00(first_byte) == first_byte

decode_length_01(bytes) ==
    LET first_byte == BitAnd(bytes[1], 63)
        second_byte == bytes[2]
    IN  BitOr(Shl16(second_byte, 6), first_byte)

\* reader.read_exact of n bytes after the first i: is there enough input
Has(buf, i, n) == Len(buf) >= i + n

EncodedAsInt(v) == [kind |-> "EncodedAsInt", v |-> v]
EncodedAsString(v) == [kind |-> "EncodedAsString", v |-> v]
UnexpectedEof == [kind |-> "err", v |-> 0]
LengthPanic == [kind |-> "panic", v |-> 0]

decode_length(buf) ==
    IF ~Has(buf, 0, 1) THEN UnexpectedEof
    ELSE LET first_byte == buf[1]
             tag == first_byte \div 64
             remaining_bits == BitAnd(first_byte, 63)
             n == IF tag = 1 THEN 1
                  ELSE IF tag = 2 THEN 4
                  ELSE IF tag = 3 /\ remaining_bits = 0 THEN 1
                  ELSE IF tag = 3 /\ remaining_bits = 1 THEN 2
                  ELSE IF tag = 3 /\ remaining_bits = 2 THEN 4 ELSE 0
         IN  IF tag = 3 /\ remaining_bits > 2 THEN LengthPanic
             ELSE IF ~Has(buf, 1, n) THEN UnexpectedEof
             ELSE IF tag = 0 THEN EncodedAsInt(decode_length_00(first_byte))
             ELSE IF tag = 1 THEN EncodedAsInt(decode_length_01(<<first_byte, buf[2]>>))
             ELSE IF tag = 2 THEN EncodedAsInt(from_le_bytes(SubSeq(buf, 2, 5)))
             ELSE EncodedAsString(from_le_bytes(SubSeq(buf, 2, 1 + n)))

(***************************************************************************)
(* decode_length over the inputs of the reader: every first byte alone,    *)
(* every pair of a first byte with top bits 01 and a second byte, and a    *)
(* few inputs of the longer encodings.                                     *)
(***************************************************************************)
Bytes == 0..255
SomeBytes == {0, 1, 128, 255}

LengthInputs ==
    {<<b0>> : b0 \in Bytes}
    \cup {<<b0, b1>> : b0 \in 64..127, b1 \in Bytes}
    \cup {<<b0, b1>> : b0 \in {192}, b1 \in SomeBytes}
    \cup {<<b0, b1, b2>> : b0 \in {193}, b1 \in SomeBytes, b2 \in SomeBytes}
    \cup {<<b0, b1, b2, 0, 0>> : b0 \in {128, 194}, b1 \in SomeBytes, b2 \in SomeBytes}

InitLength ==
    /\ Master_new(Store_new)
    /\ NoHandshake /\ NoReplica /\ NoConn
    /\ codec \in {[st |-> "bytes", buf |-> buf, res |-> UnexpectedEof] : buf \in LengthInputs}

\* decode_length(&mut reader)
DecodeLength ==
    /\ codec.st = "bytes"
    /\ codec' = [codec EXCEPT !.st = "decoded", !.res = decode_length(codec.buf)]
    /\ UNCHANGED <<masterVars, rdb, hs, repl, conn>>

NextLength == DecodeLength

SpecLength == InitLength /\ [][NextLength]_vars

\* C35: a first byte with top bits 01 followed by b1 decodes to the 14-bit
\* length ((b0 & 0x3F) << 8) | b1, whatever the two bytes, and a first byte
\* with top bits 00 decodes to its low six bits.
C35_LengthOfTwoBytes ==
    (codec.st = "decoded" /\ codec.buf[1] \div 64 <= 1 /\ Len(codec.buf) = 1 + codec.buf[1] \div 64)
    => /\ codec.res.kind = "EncodedAsInt"
       /\ codec.buf[1] \div 64 = 0 => codec.res.v = codec.buf[1] % 64
       /\ codec.buf[1] \div 64 = 1 => codec.res.v = (codec.buf[1] % 64) * 256 + codec.buf[2]

(***************************************************************************)
(* C36: the SETs applied after the snapshot was sent.                      *)
(***************************************************************************)
\* C36: a SET the master applies after it has sent FULLRESYNC and the RDB
\* snapshot to a replica is written to that replica: when the SET is done
\* and answered, every replica connection that had been sent the snapshot
\* (and is still open) has been written the command.
C36_SetAfterSnapshotIsPropagated ==
    [][\A c \in Clients :
          (SetPropagate(c) /\ pc'[c] = "idle")
          => \A r \in Replicas :
                (rstate[r] # "new" /\ connOpen[r])
                => \E i \in 1..Len(sent'[r]) : sent'[r][i].seq = cur[c].seq]_vars

(***************************************************************************)
(* C37: the ACKs a collector reads.                                        *)
(***************************************************************************)
\* the GETACKs written to r on behalf of the command seq that the ACK
\* offset answers: the peer reports the bytes it was sent before the GETACK
ElicitedBy(r, offset, seq) ==
    {i \in 1..Len(sent[r]) :
        /\ sent[r][i].data = getack /\ sent[r][i].seq = seq
        /\ BytesBefore(sent[r], i) = offset}

\* C37: every REPLCONF ACK a collector reads is the replica's answer to the
\* GETACK of the WAIT that spawned this collector: no ACK left over from an
\* earlier WAIT is taken by a later one, and no left-over collector takes
\* the ACK a later WAIT elicited.
C37_AckAnswersOwnGetack ==
    [][\A k \in 1..Len(collectors), r \in Replicas :
          (/\ CollectorRead(k) \/ CollectorWake(k)
           /\ acks[r] # <<>> /\ acks'[r] = Tail(acks[r]))
          => ElicitedBy(r, Head(acks[r]), collectors[k].seq) # {}]_vars

(***************************************************************************)
(* C38: a SET after a WAIT that timed out.  The threads of the master are  *)
(* scheduled fairly and time passes; the replicas owe nothing: a peer may  *)
(* stay silent for ever.                                                   *)
(***************************************************************************)
NextLive ==
    \/ TickWait
    \/ \E c \in Clients : SetBegin(c, "k", "v", NoPx)
    \/ \E c \in Clients : SetPropagate(c)
    \/ \E r \in Replicas : Psync(r)
    \/ \E r \in Replicas : Promote(r)
    \/ \E r \in Replicas : PeerAck(r)
    \/ \E c \in Clients, n \in 1..NumReplicas, t \in WaitTimeouts : WaitBegin(c, n, t)
    \/ \E c \in Clients : WaitGetack(c)
    \/ \E c \in Clients : WaitReturn(c)
    \/ \E k \in 1..MaxCmds : CollectorRead(k)
    \/ \E k \in 1..MaxCmds : CollectorWake(k)

MasterFair ==
    /\ WF_vars(TickWait)
    /\ \A c \in Clients : WF_vars(SetPropagate(c))
    /\ \A c \in Clients : WF_vars(WaitGetack(c))
    /\ \A c \in Clients : WF_vars(WaitReturn(c))
    /\ \A k \in 1..MaxCmds : WF_vars(CollectorRead(k))
    /\ \A k \in 1..MaxCmds : WF_vars(CollectorWake(k))

SpecLive == Init /\ [][NextLive]_vars /\ MasterFair

\* C38: a SET that the master has applied while the collector of a WAIT
\* that has replied is still running gets written to every replica and
\* returns: the handler does not wait for ever on a replica connection.
C38_SetAfterTimedOutWaitReturns ==
    \A c \in Clients :
        (/\ pc[c] = "set_propagate"
         /\ \E k \in 1..Len(collectors) : collectors[k].state # "done")
        ~> (pc[c] = "idle")

(***************************************************************************)
(* master.rs: PING, ECHO, INFO replication and CONFIG GET.                 *)
(***************************************************************************)
\* a PING that is counted into the offset, as a propagated command would be
Ping_counted(c) ==
    /\ pc[c] = "idle" /\ ncmd < MaxCmds
    /\ ncmd' = ncmd + 1
    /\ cur' = [cur EXCEPT ![c] = [op |-> "ping"]]
    /\ lastReply' = [lastReply EXCEPT ![c] = SimpleString("PONG")]
    /\ replication_offset' = replication_offset + num_bytes(Array(<<BulkString("PING")>>))
    /\ UNCHANGED <<now, masterLock, innerPoisoned, pc, streamVars, map, replicas, rstate,
                   connLock, connOpen, sent, answered, acks, collectors, log>>
    /\ UNCHANGED extVars

\* the "ping" arm
Ping(c) ==
    /\ pc[c] = "idle" /\ ncmd < MaxCmds
    /\ ncmd' = ncmd + 1
    /\ cur' = [cur EXCEPT ![c] = [op |-> "ping"]]
    /\ lastReply' = [lastReply EXCEPT ![c] = SimpleString("PONG")]
    /\ UNCHANGED <<now, masterLock, innerPoisoned, pc, streamVars, map, replVars>>
    /\ UNCHANGED extVars

\* the "echo" arm
Echo(c, string) ==
    /\ pc[c] = "idle" /\ ncmd < MaxCmds
    /\ ncmd' = ncmd + 1
    /\ cur' = [cur EXCEPT ![c] = [op |-> "echo"]]
    /\ lastReply' = [lastReply EXCEPT ![c] = BulkString(string)]
    /\ UNCHANGED <<now, masterLock, innerPoisoned, pc, streamVars, map, replVars>>
    /\ UNCHANGED extVars

\* the "info" arm, "replication": role, replication id and offset in one bulk string
Info(c) ==
    /\ pc[c] = "idle" /\ ncmd < MaxCmds
    /\ InnerFree
    /\ ncmd' = ncmd + 1
    /\ cur' = [cur EXCEPT ![c] = [op |-> "info"]]
    /\ lastReply' = [lastReply EXCEPT ![c] =
          BulkString("role:master\nmaster_replid:" \o replication_id
                     \o "\nmaster_repl_offset:" \o ToString(replication_offset))]
    /\ UNCHANGED <<now, masterLock, innerPoisoned, pc, streamVars, map, replVars>>
    /\ UNCHANGED extVars

\* the "config" arm: the parameter and its value; the master's parameters are
\* not part of the state, so a master started with and one started without
\* the parameter are both taken (without it, the unwrap of None panics)
ConfigParams == {"dir", "dbfilename"}
ConfigGet(c, param, given) ==
    /\ pc[c] = "idle" /\ ncmd < MaxCmds
    /\ ncmd' = ncmd + 1
    /\ cur' = [cur EXCEPT ![c] = [op |-> "config"]]
    /\ IF given
       THEN /\ lastReply' = [lastReply EXCEPT ![c] =
                  Array(<<BulkString(param), BulkString("/" \o param)>>)]
            /\ UNCHANGED pc
       ELSE /\ Die(c)
            /\ UNCHANGED lastReply
    /\ UNCHANGED <<now, masterLock, innerPoisoned, streamVars, map, replVars>>
    /\ UNCHANGED extVars

(***************************************************************************)
(* The commands of handle_data beside SET, with replicas registered: the   *)
(* WAITs of this slice are those that return at once.                      *)
(***************************************************************************)
FrameIds == {spec \in IdSpecs : spec.form = "*"}
FrameRange == {r \in RangeStarts : r.form = "-"} \X {r \in RangeEnds : r.form = "+"}

\* the commands the claim lists, on a client connection
Listed(c) ==
    \/ Ping(c)
    \/ \E v \in Values : Echo(c, v)
    \/ \E k \in Keys : Get(c, k)
    \/ \E k \in Keys : Type(c, k)
    \/ KeysCmd(c)
    \/ \E s \in OneStream, spec \in FrameIds, f \in FieldSets : Xadd(c, s, spec, f)
    \/ \E s \in OneStream, se \in FrameRange : Xrange(c, s, se[1], se[2])
    \/ \E b \in BlockArgs, sas \in XreadArgs : XreadCapture(c, b, sas)
    \/ XreadQuery(c)
    \/ XreadSubscribe(c)
    \/ XreadRecv(c)
    \/ XreadRequery(c)
    \/ XreadDisconnected(c)
    \/ XreadTimeout(c)
    \/ Info(c)
    \/ \E p \in ConfigParams, given \in BOOLEAN : ConfigGet(c, p, given)
    \/ \E n \in WaitNs, t \in WaitTimeouts : WaitBegin(c, n, t) /\ ~broadcasts(n)

\* REPLCONF comes once on a replica connection, each command in one form,
\* and time is let pass only under a blocked XREAD
\* the clients of this slice send MaxFrameCmds commands between them
More == ncmd < MaxFrameCmds

NextFrame ==
    \/ Tick /\ \E c \in Clients : pc[c] = "xread_select"
    \/ \E c \in Clients : More /\ Ping(c)
    \/ \E c \in Clients : More /\ Echo(c, "v")
    \/ \E c \in Clients : More /\ Get(c, "k")
    \/ \E c \in Clients : More /\ Type(c, "k")
    \/ \E c \in Clients : More /\ KeysCmd(c)
    \/ \E c \in Clients, spec \in FrameIds, f \in FieldSets : More /\ Xadd(c, "s", spec, f)
    \/ \E c \in Clients, se \in FrameRange : More /\ Xrange(c, "s", se[1], se[2])
    \/ \E c \in Clients, b \in {NoBlock, MaxPx} :
          More /\ XreadCapture(c, b, <<[stream |-> "s", start |-> [form |-> "$", ms |-> 0, seq |-> 0]]>>)
    \/ \E c \in Clients : XreadQuery(c)
    \/ \E c \in Clients : XreadSubscribe(c)
    \/ \E c \in Clients : XreadRecv(c)
    \/ \E c \in Clients : XreadRequery(c)
    \/ \E c \in Clients : XreadDisconnected(c)
    \/ \E c \in Clients : XreadTimeout(c)
    \/ \E c \in Clients : More /\ Info(c)
    \/ \E c \in Clients, given \in BOOLEAN : More /\ ConfigGet(c, "dir", given)
    \/ \E c \in Clients, n \in {0, 1}, t \in WaitTimeouts : More /\ WaitBegin(c, n, t) /\ ~broadcasts(n)
    \/ \E r \in Replicas : HsReplconf(r) /\ hs[r].sent = <<>>
    \/ \E r \in Replicas : Psync(r)
    \/ \E r \in Replicas : Promote(r)
    \/ \E c \in Clients : More /\ SetBegin(c, "k", "v", NoPx)
    \/ \E c \in Clients : SetPropagate(c)

SpecFrame == Init /\ [][NextFrame]_vars

\* C39: PING, ECHO, GET, TYPE, KEYS, XADD, XRANGE, XREAD, INFO, CONFIG GET,
\* REPLCONF and a WAIT that returns at once leave replication_offset and the
\* list of replicas as they were and write nothing to a replica connection.
C39_OnlySetAndWaitTouchReplication ==
    [][((\E c \in Clients : Listed(c)) \/ (\E r \in Replicas : HsReplconf(r)))
       => /\ replication_offset' = replication_offset
          /\ replicas' = replicas
          /\ sent' = sent]_vars

\* both replicas are registered and were written one SET; the other client
\* then had its INFO answered with the offset of that SET
C39_Witness ==
    /\ Len(replicas) = NumReplicas
    /\ replication_offset = num_bytes(SetArray("k", "v", NoPx))
    /\ \A r \in Replicas : Len(sent[r]) = 1
    /\ cur[2].op = "info"
    /\ lastReply[2] = BulkString("role:master\nmaster_replid:" \o replication_id
                                 \o "\nmaster_repl_offset:27")

====
